---- MODULE Spec2Model ----
(***************************************************************************)
(* A model of the player scout: the randomized tier/page exploration of    *)
(* scoutPlayers, the freshness cache it consults and the rate-limited      *)
(* request gate (apiRequest / RateLimiter) every lookup goes through.      *)
(*                                                                         *)
(* JavaScript runs the synchronous code between two awaits without         *)
(* interruption, so every action below is one such stretch of code: the    *)
(* clock and the abort predicate change only while a request is awaited.   *)
(***************************************************************************)
EXTENDS Integers, Sequences, FiniteSets, TLC

(***************************************************************************)
(* Bounds of the model.                                                    *)
(***************************************************************************)
\* The largest maxPlayers a search is started with.
MaxTarget == 2
\* The page ceiling every combination starts with (the code starts at 50).
PageCeiling == 3
\* How many requests of one search the upstream answers with a failure status.
MaxFaults == 1
\* How many requests the caller of the request gate makes.
MaxCalls == 2
\* How many timers fire late, and by how many milliseconds.
MaxLate == 1
SleepLag == 7
\* How many milliseconds pass while the cache functions are called directly.
MaxDrift == 2

(***************************************************************************)
(* Program constants.                                                      *)
(***************************************************************************)
requestsPerSecond == 10
MsPerSecond == 1000
CACHE_MAX_AGE == 3600000
waitTime == 120000
checkInterval == 1000
MsPerMinute == 60000
SaveEvery == 10
TierSpan == 400
DivisionSpan == 100
\* JavaScript's null in a numeric field (toTotalLP of an unknown tier).
Null == -1
\* The clock when the search starts (Date.now()).
StartTime == 3900000

SOLO == "RANKED_SOLO_5x5"
FLEX == "RANKED_FLEX_SR"
NoPuuid == "none"

TIERS == <<"IRON", "BRONZE", "SILVER", "GOLD", "PLATINUM", "EMERALD", "DIAMOND">>
DIVISIONS == <<"IV", "III", "II", "I">>

\* Array.prototype.indexOf, 0-based, -1 when absent.
IndexOf(seq, x) ==
    IF \E i \in 1..Len(seq) : seq[i] = x
    THEN (CHOOSE i \in 1..Len(seq) : seq[i] = x) - 1
    ELSE -1

Min(a, b) == IF a < b THEN a ELSE b

(***************************************************************************)
(* Rank-LP codec.                                                          *)
(***************************************************************************)
\* String.prototype.toUpperCase on the names that are not upper case already.
toUpperCase(name) ==
    CASE name = "silver" -> "SILVER"
      [] name = "Gold" -> "GOLD"
      [] name = "master" -> "MASTER"
      [] name = "iv" -> "IV"
      [] name = "v" -> "V"
      [] OTHER -> name

toTotalLP(tier, division, lp) ==
    LET tierIndex == IndexOf(TIERS, toUpperCase(tier))
        divIndex == IndexOf(DIVISIONS, toUpperCase(division))
    IN  IF tierIndex = -1 THEN Null
        ELSE IF divIndex = -1 THEN Null
        ELSE tierIndex * TierSpan + divIndex * DivisionSpan + lp

\* The points kept whole instead of reduced to the division's share.
fromTotalLP_WholeRemainder(totalLP) ==
    IF totalLP < 0 THEN [tier |-> "IRON", division |-> "IV", lp |-> 0]
    ELSE IF totalLP >= Len(TIERS) * TierSpan
         THEN [tier |-> "MASTER", division |-> "I", lp |-> totalLP - Len(TIERS) * TierSpan]
    ELSE LET tierIndex == totalLP \div TierSpan
             remainder == totalLP % TierSpan
             divIndex == remainder \div DivisionSpan
         IN  [tier |-> TIERS[tierIndex + 1], division |-> DIVISIONS[divIndex + 1],
              lp |-> remainder]

fromTotalLP(totalLP) ==
    IF totalLP < 0 THEN [tier |-> "IRON", division |-> "IV", lp |-> 0]
    ELSE IF totalLP >= Len(TIERS) * TierSpan
         THEN [tier |-> "MASTER", division |-> "I", lp |-> totalLP - Len(TIERS) * TierSpan]
    ELSE LET tierIndex == totalLP \div TierSpan
             remainder == totalLP % TierSpan
             divIndex == remainder \div DivisionSpan
         IN  [tier |-> TIERS[tierIndex + 1], division |-> DIVISIONS[divIndex + 1],
              lp |-> remainder % DivisionSpan]

\* A JavaScript relational comparison converts null to 0.
JsNum(x) == IF x = Null THEN 0 ELSE x

getTierDivisionsInRange(minLP, maxLP) ==
    LET Band(i) == [tier |-> TIERS[((i - 1) \div 4) + 1],
                    division |-> DIVISIONS[((i - 1) % 4) + 1]]
        Start(i) == ((i - 1) \div 4) * TierSpan + ((i - 1) % 4) * DivisionSpan
        hits == SelectSeq([i \in 1..(Len(TIERS) * Len(DIVISIONS)) |-> i],
                          LAMBDA i : Start(i) + 99 >= minLP /\ Start(i) <= maxLP)
    IN  [j \in 1..Len(hits) |-> Band(hits[j])]

(***************************************************************************)
(* The upstream the search runs against: two ladders of one tier/division, *)
(* the players' most recent matches and their ranked standings.            *)
(***************************************************************************)
WorldTier == "SILVER"
WorldDivision == "IV"

Entry(p, lp, w, l) == [puuid |-> p, leaguePoints |-> lp, wins |-> w, losses |-> l]

\* The entries of one ladder page (league-exp entries by queue/tier/division/page).
PageEntries(queue, tier, division, pg) ==
    IF tier = "IRON" /\ division = "IV"
    THEN IF queue = SOLO /\ pg = 1 THEN {Entry("M", 10, 6, 4), Entry("Q", 30, 7, 3)}
         ELSE {}
    ELSE IF tier # WorldTier \/ division # WorldDivision THEN {}
    ELSE IF queue = SOLO THEN
        CASE pg = 1 -> {Entry("A", 50, 6, 4), Entry("B", 20, 5, 5)}
          [] pg = 2 -> {Entry("C", 70, 7, 3)}
          [] pg = 3 -> {Entry("Z", 10, 0, 0)}
          [] OTHER -> {Entry("Y", 15, 4, 4)}
    ELSE
        CASE pg = 1 -> {Entry("A", 10, 6, 4), Entry(NoPuuid, 40, 9, 1)}
          [] pg = 2 -> {Entry("C", 30, 7, 3)}
          [] OTHER -> {}

\* The most recent match of a player (match ids by puuid, count = 1).
MatchIdsOf(p) ==
    CASE p \in {"A", "B", "D"} -> <<"m1">>
      [] p = "C" -> <<"m2">>
      [] p \in {"M", "Q"} -> <<"m3">>
      [] p \in {"Y", "Z"} -> <<"m4">>
      [] OTHER -> << >>

\* A match: its participants in the order the API lists them, and how long
\* before StartTime it ended.
MatchOf(m) ==
    IF m = "m1"
    THEN [matchId |-> "m1", participants |-> <<"B", "A", "D", "U", "V">>,
          gameEndTimestamp |-> StartTime - 5 * MsPerMinute]
    ELSE IF m = "m3"
    THEN [matchId |-> "m3", participants |-> <<"M", "N", "Q">>,
          gameEndTimestamp |-> StartTime - 5 * MsPerMinute]
    ELSE IF m = "m4"
    THEN [matchId |-> "m4", participants |-> <<"Z", "Y">>,
          gameEndTimestamp |-> StartTime - 12 * MsPerMinute]
    ELSE [matchId |-> "m2", participants |-> <<"C">>,
          gameEndTimestamp |-> StartTime - 30 * MsPerMinute + 30000]

Standing(q, t, d, lp, w, l) ==
    [queueType |-> q, tier |-> t, rank |-> d, leaguePoints |-> lp, wins |-> w, losses |-> l]

\* The ranked standings of a player (league entries by summoner id).
StandingsOf(p) ==
    CASE p = "A" -> <<Standing(SOLO, "SILVER", "IV", 50, 6, 4),
                      Standing(FLEX, "SILVER", "IV", 10, 6, 4)>>
      [] p = "B" -> <<Standing("RANKED_TFT", "GOLD", "I", 0, 1, 1),
                      Standing(SOLO, "SILVER", "IV", 20, 5, 5)>>
      [] p = "D" -> <<Standing(SOLO, "SILVER", "IV", 30, 5, 5),
                      Standing(FLEX, "SILVER", "IV", 70, 6, 4)>>
      [] p = "Q" -> <<Standing(SOLO, "IRON", "IV", 30, 7, 3)>>
      [] p = "N" -> <<Standing(SOLO, "BRONZE", "I", 20, 6, 4)>>
      [] p = "Y" -> <<Standing(SOLO, "SILVER", "IV", 15, 4, 4)>>
      [] OTHER -> << >>

\* The summoner ids a profile lookup by puuid yields (none: another region).
SummonerIdOf(p) == IF p = "V" THEN {} ELSE {p}

(***************************************************************************)
(* State.                                                                  *)
(***************************************************************************)
VARIABLES
    cfg,               \* the options scoutPlayers was called with
    lastPage,          \* upstream: the last non-empty page of each queue's ladder
    pc,                \* where scoutPlayers is: the await it is suspended at
    combos,            \* searchCombinations: combination -> its record
    combo, page,       \* the combination and page being fetched / processed
    todo,              \* entries of the shuffled page not yet visited
    entry,             \* the ladder entry being looked up
    activity,          \* getLastActiveMinutes' result for that entry
    parts,             \* participants of the match not yet visited
    part,              \* the participant being resolved
    standing,          \* the league entry the participant is accepted with
    results,           \* the result list
    seenPuuids, processedMatchIds,
    playerCache,       \* the in-memory cache: puuid -> record
    extraCached,       \* cache records of players outside this upstream
    disk,              \* the cache file's records
    now,               \* Date.now()
    aborted,           \* global.isSearchAborted()
    faults,            \* requests answered with a failure status so far
    thrown,            \* the error scoutPlayers failed with
    status,            \* response.status of the latest answer
    fetched,           \* every (combination, page) requested
    fetchCount,        \* how many ladder pages were requested
    lookedUp,          \* the players whose last activity was looked up
    found,             \* the players sendPlayerFound was called with, in order
    gpc,               \* where the caller of apiRequest is
    lastRequest,       \* rateLimiter.lastRequest
    wake,              \* when the pending setTimeout is due
    waited,            \* the cool-down loop's counter
    polls,             \* abort polls of the current cool-down
    coolStart,         \* when the current cool-down began
    cooledFor,         \* how long the last completed cool-down took
    notes,             \* sendRateLimit's calls during the current request
    calls,             \* apiRequest calls the caller has made
    waits,             \* rateLimiter.wait() calls of the current request
    netCalls,          \* fetch calls of the current request
    limited,           \* 429 answers to the current request
    releasedAt,        \* when the previous fetch was issued
    lastGap,           \* the time between the two latest fetches
    late,              \* timers that fired late so far
    gerr,              \* the error apiRequest threw
    asked,             \* the last direct call of a cache function: its arguments
    got,               \* what getCachedPlayer returned to it
    met,               \* what cachedPlayerMeetsCriteria returned to it
    puts,              \* direct calls of cachePlayer so far
    unsaved,           \* of these, the ones since the file was last written
    flushed,           \* whether the latest of them wrote the file
    duo,               \* findDuosFromHistory: its inputs, position and locals
    callers,           \* concurrent callers of apiRequest: where each one is
    sseResponse,       \* the server's sseResponse: the request it points at
    streams            \* the server's response streams, by request

gateVars == <<gpc, lastRequest, wake, waited, polls, coolStart, cooledFor, notes, calls,
              waits, netCalls, limited, releasedAt, lastGap, late, gerr>>

probeVars == <<asked, got, met, puts, unsaved, flushed, duo>>

searchVars == <<cfg, lastPage, pc, combos, combo, page, todo, entry, activity, parts, part,
                standing, results, seenPuuids, processedMatchIds, playerCache,
                extraCached, disk, thrown, status, fetched, fetchCount, lookedUp, found>>

hostVars == <<callers, sseResponse, streams>>

vars == <<searchVars, gateVars, probeVars, hostVars, now, aborted, faults>>

(***************************************************************************)
(* Freshness cache.                                                        *)
(***************************************************************************)
\* The age test left out.
getCachedPlayer_NoExpiry(cache, puuid, t) ==
    IF puuid \notin DOMAIN cache THEN {} ELSE {cache[puuid]}

getCachedPlayer(cache, puuid, t) ==
    IF puuid \notin DOMAIN cache THEN {}
    ELSE IF t - cache[puuid].cachedAt > CACHE_MAX_AGE THEN {}
    ELSE {cache[puuid]}

\* The stored minutes, not adjusted for the record's age.
AdjustedActiveMinutes_Stored(cached, t) == cached.lastActiveMinutes

AdjustedActiveMinutes(cached, t) ==
    cached.lastActiveMinutes + ((t - cached.cachedAt) \div MsPerMinute)

\* winRate < minWinRate for winRate = wins / (wins + losses); 0/0 is NaN, and
\* every comparison with NaN is false.  minWinRate is held in percent.
RatioBelow(wins, losses, minWinRate) ==
    IF wins + losses = 0 THEN FALSE
    ELSE wins * 100 < minWinRate * (wins + losses)

\* The activity test on the stored minutes, not adjusted for the record's age.
cachedPlayerMeetsCriteria_Stored(cached, options, t) ==
    IF cached.lastActiveMinutes > options.activeWithinMinutes THEN FALSE
    ELSE IF RatioBelow(cached.wins, cached.losses, options.minWinRate) THEN FALSE
    ELSE IF options.minLP # Null /\ options.maxLP # Null
            /\ (JsNum(cached.totalLP) < options.minLP \/ JsNum(cached.totalLP) > options.maxLP)
         THEN FALSE
    ELSE TRUE

cachedPlayerMeetsCriteria(cached, options, t) ==
    IF AdjustedActiveMinutes(cached, t) > options.activeWithinMinutes THEN FALSE
    ELSE IF RatioBelow(cached.wins, cached.losses, options.minWinRate) THEN FALSE
    ELSE IF options.minLP # Null /\ options.maxLP # Null
            /\ (JsNum(cached.totalLP) < options.minLP \/ JsNum(cached.totalLP) > options.maxLP)
         THEN FALSE
    ELSE TRUE

\* A record the cache holds already is left as it is.
CachePut_KeepOld(cache, player, t) ==
    cache @@ (player.puuid :> [player EXCEPT !.cachedAt = t])

\* playerCache[player.puuid] = {...player, cachedAt: Date.now()}
CachePut(cache, player, t) ==
    (player.puuid :> [player EXCEPT !.cachedAt = t]) @@ cache

CacheSize(cache) == extraCached + Cardinality(DOMAIN cache)

\* cachePlayer's periodic save: the file after the upsert.
SaveDue(cache) == CacheSize(cache) % SaveEvery = 0

DiskAfterPut(cache) == IF SaveDue(cache) THEN cache ELSE disk

\* The result entry built from a cache record.
FromCache(cached, t) ==
    [cached EXCEPT !.lastActiveMinutes = AdjustedActiveMinutes(cached, t),
                   !.fromCache = TRUE,
                   !.updatedAt = cached.cachedAt]

QueueShort(q) == IF q = SOLO THEN "Solo/Duo" ELSE "Flex"

Player(p, name, q, tier, division, lp, total, w, l, minutes, fromMatch, t) ==
    [puuid |-> p, name |-> name, queue |-> QueueShort(q), tier |-> tier,
     division |-> division, lp |-> lp, totalLP |-> total, wins |-> w, losses |-> l,
     lastActiveMinutes |-> minutes, fromCache |-> FALSE, fromMatch |-> fromMatch,
     cachedAt |-> Null, updatedAt |-> t]

\* The locals of scoutPlayers outside their scope.
NoCombo == <<>>
NoEntry == <<>>
NoActivity == <<>>
NoStanding == <<>>

(***************************************************************************)
(* The searches the model starts: options, upstream ladders, cache file.   *)
(***************************************************************************)
\* Strings are sequences of characters.  The characters \d matches.
Digits == <<"0", "1", "2", "3", "4", "5", "6", "7", "8", "9">>

IsDigit(ch) == \E i \in 1..Len(Digits) : Digits[i] = ch

\* parseInt of a string of digits.
RECURSIVE parseInt(_)
parseInt(text) ==
    IF text = << >> THEN 0
    ELSE parseInt(SubSeq(text, 1, Len(text) - 1)) * 10
            + IndexOf(Digits, text[Len(text)])

\* A number as the caller writes it.
RECURSIVE Decimal(_)
Decimal(n) ==
    IF n < 10 THEN <<Digits[n + 1]>>
    ELSE Decimal(n \div 10) \o <<Digits[(n % 10) + 1]>>

\* The option left out (null).
NoRange == <<"null">>

\* if (lpRange): null and the empty string are falsy.
RangeGiven(text) == text # NoRange /\ text # << >>

\* lpRange.match(/^(\d+)-(\d+)$/) with both groups parsed; << >> for null.
lpRangeMatch(text) ==
    LET cuts == {i \in 2..(Len(text) - 1) :
                    /\ text[i] = "-"
                    /\ \A j \in 1..Len(text) : j # i => IsDigit(text[j])}
    IN  IF cuts = {} THEN << >>
        ELSE LET i == CHOOSE c \in cuts : TRUE
             IN  <<parseInt(SubSeq(text, 1, i - 1)),
                   parseInt(SubSeq(text, i + 1, Len(text)))>>

\* The options of a call together with the minLP and maxLP scoutPlayers
\* derives from lpRange before anything else.
OptionsText(queue, maxPlayers, lpRange, minWinRate) ==
    LET m == IF RangeGiven(lpRange) THEN lpRangeMatch(lpRange) ELSE << >>
    IN  [queue |-> queue, tier |-> WorldTier, division |-> WorldDivision,
         lpRange |-> lpRange,
         minLP |-> IF m = << >> THEN Null ELSE m[1],
         maxLP |-> IF m = << >> THEN Null ELSE m[2],
         maxPlayers |-> maxPlayers,
         activeWithinMinutes |-> 30, minWinRate |-> minWinRate]

Options(queue, maxPlayers, minLP, maxLP, minWinRate) ==
    OptionsText(queue, maxPlayers,
                IF minLP = Null THEN NoRange ELSE Decimal(minLP) \o <<"-">> \o Decimal(maxLP),
                minWinRate)

\* lpRange values that are not of the form "min-max".
BadRanges ==
    { <<"8", "0", "0">>, <<"8", "0", "0", "-">>, <<"-", "8", "6", "0">>,
      <<"8", "0", "0", "-", "8", "6", "0", "-", "9">>, <<"8", "0", "0", " ", "-", "8", "6", "0">>,
      <<"a", "-", "b">>, << >> }

\* queue = "both" stands for the default queue: null.
Configs ==
    {Options(SOLO, n, Null, Null, 0) : n \in 0..MaxTarget}
    \cup {Options("both", n, 800, 860, 55) : n \in 1..2}
    \cup {Options(SOLO, n, 800, 860, 55) : n \in 1..MaxTarget}
    \cup {Options(SOLO, 4, 0, 99, 55)}
    \cup {[Options(SOLO, 3, Null, Null, 0) EXCEPT !.tier = "IRON"]}
    \cup {OptionsText(SOLO, 1, text, 0) : text \in BadRanges}

LadderShapes ==
    { (SOLO :> 1) @@ (FLEX :> 1),
      (SOLO :> PageCeiling) @@ (FLEX :> 0) }

CacheRecord(p, q, lp, w, l, minutes, age) ==
    [Player(p, p, q, WorldTier, WorldDivision, lp,
            toTotalLP(WorldTier, WorldDivision, lp), w, l, minutes, FALSE, StartTime - age)
     EXCEPT !.cachedAt = StartTime - age]

\* The record of a player accepted in another tier and division; an apex
\* tier leaves totalLP null.
CacheRecordAt(p, q, tier, division, lp, w, l, minutes, age) ==
    [CacheRecord(p, q, lp, w, l, minutes, age)
     EXCEPT !.tier = tier, !.division = division,
            !.totalLP = toTotalLP(tier, division, lp)]

\* The cache files the process may have loaded: <<records, other players' records>>.
CacheFiles ==
    { << ("C" :> CacheRecord("C", FLEX, 30, 7, 3, 19, 10 * MsPerMinute))
         @@ ("D" :> CacheRecord("D", FLEX, 60, 6, 4, 2, 3 * MsPerMinute))
         @@ ("N" :> CacheRecordAt("N", SOLO, "IRON", "IV", 20, 0, 0, 4, 10 * MsPerMinute)),
         6 >>,
      << ("B" :> CacheRecord("B", SOLO, 20, 5, 5, 1, 61 * MsPerMinute))
         @@ ("M" :> CacheRecordAt("M", FLEX, "MASTER", "I", 40, 6, 4, 3,
                                  20 * MsPerMinute)), 0 >> }

\* The request gate before its first request (RateLimiter's constructor).
GateIdle ==
    /\ gpc = "idle"
    /\ lastRequest = 0
    /\ wake = 0
    /\ waited = 0
    /\ polls = 0
    /\ coolStart = 0
    /\ cooledFor = 0
    /\ notes = << >>
    /\ calls = 0
    /\ waits = 0
    /\ netCalls = 0
    /\ limited = 0
    /\ releasedAt = Null
    /\ lastGap = Null
    /\ late = 0
    /\ gerr = "none"

\* No concurrent callers and no server.
HostIdle ==
    /\ callers = << >>
    /\ sseResponse = Null
    /\ streams = << >>

\* findDuosFromHistory has not been called.
NoDuo == [pc |-> "off"]

\* No cache function has been called directly.
NoCall == [fn |-> "none", puuid |-> NoPuuid, options |-> << >>, at |-> 0]

ProbeIdle ==
    /\ asked = NoCall
    /\ got = {}
    /\ met = FALSE
    /\ puts = 0
    /\ unsaved = 0
    /\ flushed = FALSE
    /\ duo = NoDuo

Init ==
    /\ GateIdle
    /\ HostIdle
    /\ ProbeIdle
    /\ cfg \in Configs
    /\ lastPage \in LadderShapes
    /\ \E f \in CacheFiles :
         /\ playerCache = f[1]
         /\ disk = f[1]
         /\ extraCached = f[2]
    /\ pc = "start"
    /\ combos = <<>>
    /\ combo = NoCombo
    /\ page = 0
    /\ todo = {}
    /\ entry = NoEntry
    /\ activity = NoActivity
    /\ parts = <<>>
    /\ part = NoPuuid
    /\ standing = NoStanding
    /\ results = <<>>
    /\ seenPuuids = {}
    /\ processedMatchIds = {}
    /\ now = StartTime
    /\ aborted = FALSE
    /\ faults = 0
    /\ thrown = "none"
    /\ status = 0
    /\ fetched = {}
    /\ fetchCount = 0
    /\ lookedUp = {}
    /\ found = <<>>

(***************************************************************************)
(* The upstream's answers.                                                 *)
(***************************************************************************)
\* getLeagueEntries' payload.
Ladder(c, pg) ==
    IF pg <= lastPage[c.queue] THEN PageEntries(c.queue, c.tier, c.division, pg) ELSE {}

\* How apiRequest ends: with the payload (at once, or after 429 and a
\* cool-down), with the 403 error, with another API error, or with 'Search
\* aborted' because the abort predicate was true during a 429 cool-down.
Outcomes ==
    {"ok"}
    \cup (IF faults < MaxFaults THEN {"e403", "e500", "abort429"} ELSE {})
    \cup (IF faults < MaxFaults /\ ~aborted THEN {"ok429"} ELSE {})

\* The status of the last response apiRequest saw.
StatusOf(o) ==
    CASE o \in {"ok", "ok429"} -> 200
      [] o = "e403" -> 403
      [] o = "e500" -> 500
      [] o = "abort429" -> 429

Succeeded(o) == o \in {"ok", "ok429"}

\* The clock passes the cool-down only when it was waited out: sub-minute
\* latencies are not modelled.
Answered(o) ==
    /\ faults' = IF o = "ok" THEN faults ELSE faults + 1
    /\ aborted' = IF o = "abort429" THEN TRUE ELSE aborted
    /\ now' = IF o = "ok429" THEN now + waitTime ELSE now
    /\ status' = StatusOf(o)

(***************************************************************************)
(* scoutPlayers.                                                           *)
(***************************************************************************)
queuesToSearch == IF cfg.queue = "both" THEN {SOLO, FLEX} ELSE {cfg.queue}

tierDivisionsToSearch ==
    IF cfg.minLP # Null
    THEN LET tds == getTierDivisionsInRange(cfg.minLP, cfg.maxLP)
         IN  {tds[i] : i \in 1..Len(tds)}
    ELSE {[tier |-> cfg.tier, division |-> cfg.division]}

searchCombinations ==
    {[queue |-> q, tier |-> td.tier, division |-> td.division] :
        q \in queuesToSearch, td \in tierDivisionsToSearch}

cacheOptions ==
    [activeWithinMinutes |-> cfg.activeWithinMinutes, minWinRate |-> cfg.minWinRate,
     minLP |-> cfg.minLP, maxLP |-> cfg.maxLP]

\* if (lpRange) { ... if (!match) return [] }
RangeRejected == RangeGiven(cfg.lpRange) /\ lpRangeMatch(cfg.lpRange) = << >>

\* The lines up to the while loop.
Start ==
    /\ pc = "start"
    /\ IF RangeRejected
       THEN /\ combos' = combos
            /\ pc' = "done"
       ELSE /\ combos' = [c \in searchCombinations |->
                            [triedPages |-> {}, maxPageReached |-> FALSE,
                             currentMaxPage |-> PageCeiling]]
            /\ pc' = "loop"
    /\ UNCHANGED <<cfg, lastPage, combo, page, todo, entry, activity, parts, part,
                   standing, results, seenPuuids, processedMatchIds, playerCache,
                   extraCached, disk, now, aborted, faults, thrown, status, fetched,
                   fetchCount, lookedUp, found>>
    /\ UNCHANGED <<gateVars, probeVars, hostVars>>

\* The lines after the while loop: saveCache() and return results.
Return ==
    /\ disk' = playerCache
    /\ pc' = "done"

\* Exhausted combinations kept in the draw.
activeCombinations_All == DOMAIN combos

activeCombinations == {c \in DOMAIN combos : ~combos[c].maxPageReached}

\* Every page up to the estimate, tried or not.
untriedPages_All(c) == 1..combos[c].currentMaxPage

untriedPages(c) == {p \in 1..combos[c].currentMaxPage : p \notin combos[c].triedPages}

\* The loop leaving as soon as one combination is exhausted.
LoopExit_TargetOnly ==
    \/ Len(results) >= cfg.maxPlayers
    \/ aborted

\* The loop's exit tests.
LoopExit ==
    \/ Len(results) >= cfg.maxPlayers
    \/ aborted
    \/ activeCombinations = {}

\* One pass of the while loop up to the await of getLeagueEntries.
LoopTop ==
    /\ pc = "loop"
    /\ status' = 0
    /\ IF LoopExit
       THEN /\ Return
            /\ UNCHANGED <<combos, combo, page, fetched, fetchCount>>
       ELSE \E c \in activeCombinations :
              IF untriedPages(c) = {}
              THEN /\ combos' = [combos EXCEPT ![c].maxPageReached = TRUE]
                   /\ UNCHANGED <<pc, disk, combo, page, fetched, fetchCount>>
              ELSE \E p \in untriedPages(c) :
                     /\ combos' = [combos EXCEPT ![c].triedPages = @ \cup {p}]
                     /\ combo' = c
                     /\ page' = p
                     /\ fetched' = fetched \cup {<<c, p>>}
                     /\ fetchCount' = fetchCount + 1
                     /\ pc' = "page"
                     /\ UNCHANGED disk
    /\ UNCHANGED <<cfg, lastPage, todo, entry, activity, parts, part, standing, results,
                   seenPuuids, processedMatchIds, playerCache, extraCached, now,
                   aborted, faults, thrown, found, lookedUp>>
    /\ UNCHANGED <<gateVars, probeVars, hostVars>>

\* The combination's record after an empty page.
AfterEmptyPage(rec, pg) ==
    LET est == Min(rec.currentMaxPage, pg - 1)
    IN  [rec EXCEPT !.currentMaxPage = est,
                    !.maxPageReached =
                        IF est < 1 \/ Cardinality(rec.triedPages) >= est THEN TRUE ELSE @]

\* getLeagueEntries answers; its errors are not caught.
PageAnswer ==
    /\ pc = "page"
    /\ \E o \in Outcomes :
         /\ Answered(o)
         /\ IF ~Succeeded(o)
            THEN /\ pc' = "failed"
                 /\ thrown' = o
                 /\ combo' = NoCombo
                 /\ UNCHANGED <<combos, todo>>
            ELSE IF Ladder(combo, page) = {}
            THEN /\ combos' = [combos EXCEPT ![combo] = AfterEmptyPage(@, page)]
                 /\ pc' = "loop"
                 /\ combo' = NoCombo
                 /\ UNCHANGED <<thrown, todo>>
            ELSE /\ todo' = Ladder(combo, page)
                 /\ pc' = "entries"
                 /\ UNCHANGED <<thrown, combos, combo>>
    /\ page' = 0
    /\ UNCHANGED <<cfg, lastPage, entry, activity, parts, part, standing,
                   results, seenPuuids, processedMatchIds, playerCache, extraCached, disk, fetched, fetchCount, lookedUp, found>>
    /\ UNCHANGED <<gateVars, probeVars, hostVars>>

\* winRate < minWinRate for a ladder entry or a standing: 0 with no games.
WinRateBelow(wins, losses, minWinRate) ==
    IF wins + losses > 0 THEN wins * 100 < minWinRate * (wins + losses)
    ELSE 0 < minWinRate

\* The LP-range test of a ladder entry (lines 531-536): TRUE when it is skipped.
OutsideRange(total) ==
    /\ cfg.minLP # Null /\ cfg.maxLP # Null
    /\ (JsNum(total) < cfg.minLP \/ JsNum(total) > cfg.maxLP)

\* The player is appended without the observer being told.
Accept_Silent(player) ==
    /\ results' = Append(results, player)
    /\ found' = found

\* results.push(player); global.sendPlayerFound(player)
Accept(player) ==
    /\ results' = Append(results, player)
    /\ found' = Append(found, player)

\* The cache is never consulted.
CacheHit_Never(p, t) == FALSE

\* cached && cachedPlayerMeetsCriteria(cached, cacheOptions), for player p at time t.
CacheHit(p, t) ==
    \E r \in getCachedPlayer(playerCache, p, t) : cachedPlayerMeetsCriteria(r, cacheOptions, t)

\* The positions at which the search awaits the answer to a request.
Awaiting == {"page", "ids", "detail", "name", "summoner", "league", "pname"}

\* The processed test left out.
MatchProcessed_Never(matchId) == FALSE

\* processedMatchIds.has(matchId)
MatchProcessed(matchId) == matchId \in processedMatchIds

\* The seen test left out.
AlreadySeen_Never(p) == FALSE

\* seenPuuids.has(puuid)
AlreadySeen(p) == p \in seenPuuids

\* The entry loop without its test of the target count.
EntryLoopBreak_NoTarget == todo = {} \/ aborted

\* The entry loop ends: no entry left, or one of its two break tests.
EntryLoopBreak == todo = {} \/ Len(results) >= cfg.maxPlayers \/ aborted

\* One pass of the loop over the shuffled entries, up to its next await.
EntryLoop ==
    /\ pc = "entries"
    /\ status' = 0
    /\ IF EntryLoopBreak
       THEN /\ pc' = "loop"
            /\ todo' = {}
            /\ combo' = NoCombo
            /\ UNCHANGED <<entry, results, found, seenPuuids, lookedUp>>
       ELSE \E e \in todo :
              /\ todo' = todo \ {e}
              /\ UNCHANGED combo
              /\ IF \/ OutsideRange(toTotalLP(combo.tier, combo.division, e.leaguePoints))
                    \/ WinRateBelow(e.wins, e.losses, cfg.minWinRate)
                    \/ e.puuid = NoPuuid
                    \/ AlreadySeen(e.puuid)
                 THEN UNCHANGED <<pc, entry, results, found, seenPuuids, lookedUp>>
                 ELSE LET cached == getCachedPlayer(playerCache, e.puuid, now)
                      IN  IF CacheHit(e.puuid, now)
                          THEN /\ seenPuuids' = seenPuuids \cup {e.puuid}
                               /\ \E r \in cached : Accept(FromCache(r, now))
                               /\ UNCHANGED <<pc, entry, lookedUp>>
                          ELSE /\ entry' = e
                               /\ pc' = "ids"
                               /\ lookedUp' = lookedUp \cup {e.puuid}
                               /\ UNCHANGED <<results, found, seenPuuids>>
    /\ UNCHANGED <<cfg, lastPage, combos, page, activity, parts, part, standing,
                   processedMatchIds, playerCache, extraCached, disk, now, aborted,
                   faults, thrown, fetched, fetchCount>>
    /\ UNCHANGED <<gateVars, probeVars, hostVars>>

\* getMatchIds answers inside getLastActiveMinutes, which catches every error.
IdsAnswer ==
    /\ pc = "ids"
    /\ \E o \in Outcomes :
         /\ Answered(o)
         /\ IF Succeeded(o) /\ MatchIdsOf(entry.puuid) # << >>
            THEN pc' = "detail" /\ UNCHANGED entry
            ELSE pc' = "entries" /\ entry' = NoEntry
    /\ UNCHANGED <<cfg, lastPage, combos, combo, page, todo, activity, parts, part,
                   standing, results, seenPuuids, processedMatchIds, playerCache,
                   extraCached, disk, thrown, fetched, fetchCount, lookedUp, found>>
    /\ UNCHANGED <<gateVars, probeVars, hostVars>>

minutesAgo(match, t) == (t - match.gameEndTimestamp) \div MsPerMinute

\* getMatchDetails answers inside getLastActiveMinutes; then the activity test.
DetailAnswer ==
    /\ pc = "detail"
    /\ \E o \in Outcomes :
         /\ Answered(o)
         /\ LET match == MatchOf(MatchIdsOf(entry.puuid)[1])
            IN  IF Succeeded(o) /\ minutesAgo(match, now') <= cfg.activeWithinMinutes
                THEN /\ activity' = [minutesAgo |-> minutesAgo(match, now'), match |-> match]
                     /\ seenPuuids' = seenPuuids \cup {entry.puuid}
                     /\ pc' = "name"
                     /\ UNCHANGED entry
                ELSE /\ pc' = "entries"
                     /\ entry' = NoEntry
                     /\ UNCHANGED <<activity, seenPuuids>>
    /\ UNCHANGED <<cfg, lastPage, combos, combo, page, todo, parts, part, standing,
                   results, processedMatchIds, playerCache, extraCached, disk,
                   thrown, fetched, fetchCount, lookedUp, found>>
    /\ UNCHANGED <<gateVars, probeVars, hostVars>>

\* The name is taken from the answer whatever it is.
DisplayName_Resolved(p, o) == p

\* The display name: gameName#tagLine, or 'Unknown' when the lookup failed.
DisplayName(p, o) == IF Succeeded(o) THEN p ELSE "Unknown"

\* getRiotIdByPuuid answers (errors caught); the player is cached, accepted
\* and its match is opened for expansion.
NameAnswer ==
    /\ pc = "name"
    /\ \E o \in Outcomes :
         /\ Answered(o)
         /\ LET player == Player(entry.puuid, DisplayName(entry.puuid, o), combo.queue,
                                 combo.tier, combo.division, entry.leaguePoints,
                                 toTotalLP(combo.tier, combo.division, entry.leaguePoints),
                                 entry.wins, entry.losses, activity.minutesAgo, FALSE, now')
                matchId == activity.match.matchId
            IN  /\ playerCache' = CachePut(playerCache, player, now')
                /\ disk' = DiskAfterPut(playerCache')
                /\ Accept(player)
                /\ IF ~MatchProcessed(matchId) /\ Len(results') < cfg.maxPlayers
                   THEN /\ processedMatchIds' = processedMatchIds \cup {matchId}
                        /\ parts' = activity.match.participants
                        /\ pc' = "parts"
                        /\ UNCHANGED <<entry, activity>>
                   ELSE /\ pc' = "entries"
                        /\ entry' = NoEntry
                        /\ activity' = NoActivity
                        /\ UNCHANGED <<processedMatchIds, parts>>
    /\ UNCHANGED <<cfg, lastPage, combos, combo, page, todo, part,
                   standing, seenPuuids, extraCached, thrown, fetched,
                   fetchCount, lookedUp>>
    /\ UNCHANGED <<gateVars, probeVars, hostVars>>

\* The participant loop without its test of the target count.
PartLoopBreak_NoTarget == parts = << >> \/ aborted

\* The participant loop ends: no participant left, or one of its two break tests.
PartLoopBreak == parts = << >> \/ Len(results) >= cfg.maxPlayers \/ aborted

\* One pass of the loop over the match's participants, up to its next await.
PartLoop ==
    /\ pc = "parts"
    /\ status' = 0
    /\ IF PartLoopBreak
       THEN /\ pc' = "entries"
            /\ parts' = << >>
            /\ entry' = NoEntry
            /\ activity' = NoActivity
            /\ UNCHANGED <<part, results, found, seenPuuids>>
       ELSE LET pp == Head(parts)
                cached == getCachedPlayer(playerCache, pp, now)
            IN  /\ parts' = Tail(parts)
                /\ UNCHANGED <<entry, activity>>
                /\ IF pp = NoPuuid \/ pp = entry.puuid \/ AlreadySeen(pp)
                   THEN UNCHANGED <<pc, part, results, found, seenPuuids>>
                   ELSE IF CacheHit(pp, now)
                   THEN /\ seenPuuids' = seenPuuids \cup {pp}
                        /\ \E r \in cached : Accept(FromCache(r, now))
                        /\ UNCHANGED <<pc, part>>
                   ELSE /\ part' = pp
                        /\ pc' = "summoner"
                        /\ UNCHANGED <<results, found, seenPuuids>>
    /\ UNCHANGED <<cfg, lastPage, combos, combo, page, todo, standing,
                   processedMatchIds, playerCache, extraCached, disk, now, aborted,
                   faults, thrown, fetched, fetchCount, lookedUp>>
    /\ UNCHANGED <<gateVars, probeVars, hostVars>>

\* The answer is taken for a profile whatever it is.
ProfileFound_Always(o, p) == TRUE

\* The lookup returned (no error thrown) a summoner with an id: l.676-682.
ProfileFound(o, p) == Succeeded(o) /\ SummonerIdOf(p) # {}

\* getSummonerByPuuid answers; errors are caught by the participant's try.
SummonerAnswer ==
    /\ pc = "summoner"
    /\ \E o \in Outcomes :
         /\ Answered(o)
         /\ IF ProfileFound(o, part)
            THEN pc' = "league" /\ UNCHANGED part
            ELSE pc' = "parts" /\ part' = NoPuuid
    /\ UNCHANGED <<cfg, lastPage, combos, combo, page, todo, entry, activity, parts,
                   standing, results, seenPuuids, processedMatchIds, playerCache,
                   extraCached, disk, thrown, fetched, fetchCount, lookedUp, found>>
    /\ UNCHANGED <<gateVars, probeVars, hostVars>>

\* The filters of one league entry of a participant (lines 698-718).
StandingQualifies(le) ==
    /\ le.queueType \in {SOLO, FLEX}
    /\ LET total == toTotalLP(le.tier, le.rank, le.leaguePoints)
       IN  ~(/\ cfg.minLP # Null /\ cfg.maxLP # Null
             /\ (total = Null \/ total < cfg.minLP \/ total > cfg.maxLP))
    /\ ~WinRateBelow(le.wins, le.losses, cfg.minWinRate)

\* The first league entry the loop of lines 694-763 stops at, if any.
FirstQualifying(les) ==
    LET hits == {i \in 1..Len(les) : StandingQualifies(les[i])}
    IN  IF hits = {} THEN {}
        ELSE {les[CHOOSE i \in hits : \A j \in hits : i <= j]}

\* getLeagueEntriesBySummonerId answers; the first qualifying league entry
\* marks the participant seen and its name is looked up.
LeagueAnswer ==
    /\ pc = "league"
    /\ \E o \in Outcomes :
         /\ Answered(o)
         /\ LET hit == IF Succeeded(o) THEN FirstQualifying(StandingsOf(part)) ELSE {}
            IN  IF hit = {}
                THEN /\ pc' = "parts"
                     /\ part' = NoPuuid
                     /\ UNCHANGED <<standing, seenPuuids>>
                ELSE /\ standing' = CHOOSE le \in hit : TRUE
                     /\ seenPuuids' = seenPuuids \cup {part}
                     /\ pc' = "pname"
                     /\ UNCHANGED part
    /\ UNCHANGED <<cfg, lastPage, combos, combo, page, todo, entry, activity, parts,
                   results, processedMatchIds, playerCache, extraCached, disk,
                   thrown, fetched, fetchCount, lookedUp, found>>
    /\ UNCHANGED <<gateVars, probeVars, hostVars>>

\* getRiotIdByPuuid answers for the participant (errors caught): cached, accepted.
PartNameAnswer ==
    /\ pc = "pname"
    /\ \E o \in Outcomes :
         /\ Answered(o)
         /\ LET player == Player(part, DisplayName(part, o), standing.queueType,
                                 standing.tier, standing.rank, standing.leaguePoints,
                                 toTotalLP(standing.tier, standing.rank,
                                           standing.leaguePoints),
                                 standing.wins, standing.losses, activity.minutesAgo,
                                 TRUE, now')
            IN  /\ playerCache' = CachePut(playerCache, player, now')
                /\ disk' = DiskAfterPut(playerCache')
                /\ Accept(player)
    /\ pc' = "parts"
    /\ part' = NoPuuid
    /\ standing' = NoStanding
    /\ UNCHANGED <<cfg, lastPage, combos, combo, page, todo, entry, activity, parts,
                   seenPuuids, processedMatchIds, extraCached,
                   thrown, fetched, fetchCount, lookedUp>>
    /\ UNCHANGED <<gateVars, probeVars, hostVars>>

(***************************************************************************)
(* The environment: the clock, and the caller's abort predicate.           *)
(***************************************************************************)
\* The caller aborts: the predicate is true from now on.
Abort ==
    /\ pc \notin {"start", "done", "failed"}
    /\ ~aborted
    /\ aborted' = TRUE
    /\ UNCHANGED <<cfg, lastPage, pc, combos, combo, page, todo, entry, activity, parts,
                   part, standing, results, seenPuuids, processedMatchIds, playerCache,
                   extraCached, disk, now, faults, thrown, status, fetched, fetchCount, lookedUp,
                   found>>
    /\ UNCHANGED <<gateVars, probeVars, hostVars>>

\* A step of scoutPlayers itself.
Step ==
    \/ Start
    \/ LoopTop
    \/ PageAnswer
    \/ EntryLoop
    \/ IdsAnswer
    \/ DetailAnswer
    \/ NameAnswer
    \/ PartLoop
    \/ SummonerAnswer
    \/ LeagueAnswer
    \/ PartNameAnswer

Next ==
    \/ Step
    \/ Abort

Spec == Init /\ [][Next]_vars

\* The search is scheduled until it returns or fails and every await
\* resolves; nothing obliges the caller to abort.
FairSpec == Spec /\ WF_vars(Step)

(***************************************************************************)
(* apiRequest and RateLimiter, one await at a time.  One caller issues     *)
(* its requests one after another; the clock is in milliseconds.           *)
(***************************************************************************)
minDelay == MsPerSecond \div requestsPerSecond

\* What the caller does between two requests, and how long a fetch takes.
ThinkTimes == {0, minDelay}
Latencies == {0, minDelay \div 4}

\* setTimeout never fires early; it may fire late.
Lags == {0} \cup (IF late < MaxLate THEN {SleepLag} ELSE {})

\* The search is not running while the gate is observed on its own.
SearchIdle ==
    /\ cfg = Options(SOLO, 0, Null, Null, 0)
    /\ lastPage = (SOLO :> 0) @@ (FLEX :> 0)
    /\ pc = "off"
    /\ combos = <<>>
    /\ combo = NoCombo
    /\ page = 0
    /\ todo = {}
    /\ entry = NoEntry
    /\ activity = NoActivity
    /\ parts = <<>>
    /\ part = NoPuuid
    /\ standing = NoStanding
    /\ results = <<>>
    /\ seenPuuids = {}
    /\ processedMatchIds = {}
    /\ thrown = "none"
    /\ status = 0
    /\ fetched = {}
    /\ fetchCount = 0
    /\ lookedUp = {}
    /\ found = <<>>

SearchOff ==
    /\ SearchIdle
    /\ playerCache = << >>
    /\ disk = << >>
    /\ extraCached = 0

GateInit ==
    /\ GateIdle
    /\ HostIdle
    /\ ProbeIdle
    /\ SearchOff
    /\ now = StartTime
    /\ aborted = FALSE
    /\ faults = 0

\* wait() sleeps when the last request is less than minDelay old.
SleepNeeded_Never(elapsed) == FALSE

SleepNeeded(elapsed) == elapsed < minDelay

\* The end of wait() and the fetch call that follows it, at time t; n
\* fetch calls were made for this request before.
Release(t, n) ==
    /\ lastRequest' = t
    /\ netCalls' = n + 1
    /\ lastGap' = IF releasedAt = Null THEN Null ELSE t - releasedAt
    /\ releasedAt' = t
    /\ gpc' = "fetch"
    /\ now' = t
    /\ UNCHANGED wake

\* apiRequest's first line, entered at time t: rateLimiter.wait().
EnterWait(t, w, n) ==
    /\ waits' = w + 1
    /\ LET elapsed == t - lastRequest
       IN  IF SleepNeeded(elapsed)
           THEN /\ gpc' = "gateSleep"
                /\ wake' = t + (minDelay - elapsed)
                /\ now' = t
                /\ netCalls' = n
                /\ UNCHANGED <<lastRequest, lastGap, releasedAt>>
           ELSE Release(t, n)

\* The caller calls apiRequest(url), its previous call being over.
GateCall ==
    /\ gpc \in {"idle", "returned", "threw"}
    /\ calls < MaxCalls
    /\ calls' = calls + 1
    /\ \E d \in ThinkTimes : EnterWait(now + d, 0, 0)
    /\ limited' = 0
    /\ notes' = << >>
    /\ gerr' = "none"
    /\ UNCHANGED <<waited, polls, coolStart, cooledFor, late, aborted, faults>>
    /\ UNCHANGED <<searchVars, probeVars, hostVars>>

\* wait()'s sleep is over.
GateWake ==
    /\ gpc = "gateSleep"
    /\ \E lag \in Lags :
         /\ late' = IF lag = 0 THEN late ELSE late + 1
         /\ Release(wake + lag, netCalls)
    /\ UNCHANGED <<waited, polls, coolStart, cooledFor, notes, calls, waits, limited,
                   gerr, aborted, faults>>
    /\ UNCHANGED <<searchVars, probeVars, hostVars>>

\* The for loop's test.
CoolDownOver_OneRound(w) == w >= checkInterval

CoolDownOver(w) == ~(w < waitTime)

\* One round of the cool-down loop at time t, the n+1st: poll the abort
\* predicate, then sleep checkInterval.
CoolRound(t, n) ==
    /\ polls' = n + 1
    /\ IF aborted
       THEN /\ gpc' = "threw"
            /\ gerr' = "Search aborted"
            /\ UNCHANGED wake
       ELSE /\ gpc' = "cool"
            /\ gerr' = gerr
            /\ wake' = t + checkInterval

StatusCodes == {200} \cup (IF faults < MaxFaults THEN {403, 429, 500} ELSE {})

\* The fetch resolves: the lines from the response to the next await, return
\* or throw.
Respond ==
    /\ gpc = "fetch"
    /\ \E lat \in Latencies, code \in StatusCodes :
         /\ now' = now + lat
         /\ faults' = IF code = 200 THEN faults ELSE faults + 1
         /\ CASE code = 200 ->
                   /\ gpc' = "returned"
                   /\ UNCHANGED <<gerr, notes, limited, waited, polls, coolStart, wake>>
              [] code = 403 ->
                   /\ gpc' = "threw"
                   /\ gerr' = "API Key invalid or expired"
                   /\ UNCHANGED <<notes, limited, waited, polls, coolStart, wake>>
              [] code = 429 ->
                   /\ notes' = Append(notes, <<TRUE, waitTime \div MsPerSecond>>)
                   /\ limited' = limited + 1
                   /\ waited' = 0
                   /\ coolStart' = now'
                   /\ CoolRound(now', 0)
              [] OTHER ->
                   /\ gpc' = "threw"
                   /\ gerr' = "API Error"
                   /\ UNCHANGED <<notes, limited, waited, polls, coolStart, wake>>
    /\ UNCHANGED <<lastRequest, cooledFor, calls, waits, netCalls, releasedAt, lastGap,
                   late, aborted>>
    /\ UNCHANGED <<searchVars, probeVars, hostVars>>

\* A cool-down sleep is over: waited += checkInterval, then the loop's test.
CoolWake ==
    /\ gpc = "cool"
    /\ \E lag \in Lags :
         LET t == wake + lag
             w == waited + checkInterval
         IN  /\ late' = IF lag = 0 THEN late ELSE late + 1
             /\ waited' = w
             /\ IF CoolDownOver(w)
                THEN /\ notes' = Append(notes, <<FALSE, 0>>)
                     /\ cooledFor' = t - coolStart
                     /\ EnterWait(t, waits, netCalls)
                     /\ UNCHANGED <<polls, gerr>>
                ELSE /\ CoolRound(t, polls)
                     /\ now' = t
                     /\ UNCHANGED <<notes, cooledFor, waits, netCalls, lastRequest,
                                    lastGap, releasedAt>>
    /\ UNCHANGED <<coolStart, calls, limited, aborted, faults>>
    /\ UNCHANGED <<searchVars, probeVars, hostVars>>

\* The caller's abort predicate turns true while a request is under way.
GateAbort ==
    /\ gpc \in {"gateSleep", "fetch", "cool"}
    /\ ~aborted
    /\ aborted' = TRUE
    /\ UNCHANGED <<gpc, lastRequest, wake, waited, polls, coolStart, cooledFor, notes,
                   calls, waits, netCalls, limited, releasedAt, lastGap, late, gerr>>
    /\ UNCHANGED <<now, faults>>
    /\ UNCHANGED <<searchVars, probeVars, hostVars>>

GateNext ==
    \/ GateCall
    \/ GateWake
    \/ Respond
    \/ CoolWake
    \/ GateAbort

GateSpec == GateInit /\ [][GateNext]_vars

(***************************************************************************)
(* getCachedPlayer and cachedPlayerMeetsCriteria called directly, on caches *)
(* holding one record whose age is at, next to or away from the one-hour   *)
(* and whole-minute marks.                                                 *)
(***************************************************************************)
ProbeAges ==
    {0, 59 * MsPerMinute, CACHE_MAX_AGE - 1, CACHE_MAX_AGE, 61 * MsPerMinute}

ProbeRecords ==
    {CacheRecordAt("P", SOLO, rank[1], rank[2], rank[3], games[1], games[2], minutes, age) :
        rank \in {<<"SILVER", "IV", 10>>, <<"SILVER", "IV", 70>>, <<"MASTER", "I", 40>>},
        games \in {<<6, 4>>, <<5, 5>>, <<0, 0>>},
        minutes \in {0, 10},
        age \in ProbeAges}

ProbeCaches == {<< >>} \cup {("P" :> r) : r \in ProbeRecords}

ProbeIds == {"P", "X"}

ProbeOptions ==
    {[activeWithinMinutes |-> a, minWinRate |-> w, minLP |-> r[1], maxLP |-> r[2]] :
        a \in {60, 70}, w \in {0, 55},
        r \in {<<Null, Null>>, <<800, 860>>, <<0, 860>>, <<800, Null>>}}

CacheInit ==
    /\ SearchIdle
    /\ GateIdle
    /\ HostIdle
    /\ ProbeIdle
    /\ playerCache \in ProbeCaches
    /\ disk = playerCache
    /\ extraCached = 0
    /\ now = StartTime
    /\ aborted = FALSE
    /\ faults = 0

\* getCachedPlayer(puuid) is called.
CallGet ==
    /\ \E p \in ProbeIds :
         /\ asked' = [fn |-> "getCachedPlayer", puuid |-> p, options |-> << >>, at |-> now]
         /\ got' = getCachedPlayer(playerCache, p, now)
    /\ met' = FALSE
    /\ UNCHANGED <<searchVars, gateVars, puts, unsaved, flushed, duo, hostVars, now, aborted, faults>>

\* cachedPlayerMeetsCriteria(cached, options) is called with a record of the cache.
CallMeets ==
    /\ \E p \in DOMAIN playerCache, o \in ProbeOptions :
         /\ asked' = [fn |-> "cachedPlayerMeetsCriteria", puuid |-> p, options |-> o,
                      at |-> now]
         /\ met' = cachedPlayerMeetsCriteria(playerCache[p], o, now)
    /\ got' = {}
    /\ UNCHANGED <<searchVars, gateVars, puts, unsaved, flushed, duo, hostVars, now, aborted, faults>>

\* A millisecond passes.
Pass ==
    /\ now < StartTime + MaxDrift
    /\ now' = now + 1
    /\ UNCHANGED <<searchVars, gateVars, probeVars, hostVars, aborted, faults>>

CacheNext ==
    \/ CallGet
    \/ CallMeets
    \/ Pass

CacheSpec == CacheInit /\ [][CacheNext]_vars

(***************************************************************************)
(* cachePlayer called directly, on caches loaded with any number of        *)
(* records, for players the cache holds and players it does not.           *)
(***************************************************************************)
MaxPuts == 11

\* How many records of other players the loaded file held.
LoadedCounts == {0, 7, 8, 9, 10}

PutIds == {"P", "X"}

PutInit ==
    /\ SearchIdle
    /\ GateIdle
    /\ HostIdle
    /\ ProbeIdle
    /\ playerCache \in {<< >>, ("P" :> CacheRecord("P", SOLO, 10, 6, 4, 0, MsPerMinute))}
    /\ disk = playerCache
    /\ extraCached \in LoadedCounts
    /\ now = StartTime
    /\ aborted = FALSE
    /\ faults = 0

\* cachePlayer(player) is called.
CallPut ==
    /\ puts < MaxPuts
    /\ \E p \in PutIds :
         LET player == Player(p, p, SOLO, WorldTier, WorldDivision, 10,
                              toTotalLP(WorldTier, WorldDivision, 10), 6, 4, 0, FALSE, now)
             cache  == CachePut(playerCache, player, now)
         IN  /\ asked' = [fn |-> "cachePlayer", puuid |-> p, options |-> << >>, at |-> now]
             /\ playerCache' = cache
             /\ disk' = DiskAfterPut(cache)
             /\ flushed' = SaveDue(cache)
             /\ unsaved' = IF SaveDue(cache) THEN 0 ELSE unsaved + 1
    /\ puts' = puts + 1
    /\ UNCHANGED <<cfg, lastPage, pc, combos, combo, page, todo, entry, activity, parts,
                   part, standing, results, seenPuuids, processedMatchIds, extraCached,
                   thrown, status, fetched, fetchCount, lookedUp, found>>
    /\ UNCHANGED <<gateVars, got, met, duo, hostVars, now, aborted, faults>>

PutNext ==
    \/ CallPut
    \/ Pass

PutSpec == PutInit /\ [][PutNext]_vars

(***************************************************************************)
(* toTotalLP, fromTotalLP and getTierDivisionsInRange called directly.     *)
(***************************************************************************)
\* The largest total fromTotalLP is called with.
MaxTotal == 2805

TierNames == {TIERS[i] : i \in 1..Len(TIERS)}
DivisionNames == {DIVISIONS[i] : i \in 1..Len(DIVISIONS)}

RankTiers == TierNames \cup {"MASTER", "master", "silver", "Gold", "WOOD"}
RankDivisions == DivisionNames \cup {"iv", "v", "V"}
RankPoints == 0..(DivisionSpan + 1)

\* Range bounds at, next to and away from the band edges.
RangeEnds ==
    {0, 99, 100, 799, 800, 820, 850, 899, 900, 999, 1000, 1001, 2699, 2799, 2800, 2900}

\* The calls made: function and arguments.
RankCalls ==
    {[fn |-> "toTotalLP", puuid |-> NoPuuid, options |-> <<tier, division, lp>>,
      at |-> StartTime] :
        tier \in RankTiers, division \in RankDivisions, lp \in RankPoints}
    \cup {[fn |-> "fromTotalLP", puuid |-> NoPuuid, options |-> <<totalLP>>,
           at |-> StartTime] : totalLP \in (-3)..MaxTotal}
    \cup {[fn |-> "getTierDivisionsInRange", puuid |-> NoPuuid,
           options |-> <<minLP, maxLP>>, at |-> StartTime] :
             minLP \in RangeEnds, maxLP \in RangeEnds}

\* A call is about to be made.
RankInit ==
    /\ SearchIdle
    /\ GateIdle
    /\ HostIdle
    /\ asked \in RankCalls
    /\ got = {}
    /\ met = FALSE
    /\ puts = 0
    /\ unsaved = 0
    /\ flushed = FALSE
    /\ duo = NoDuo
    /\ playerCache = << >>
    /\ disk = << >>
    /\ extraCached = 0
    /\ now = StartTime
    /\ aborted = FALSE
    /\ faults = 0

\* toTotalLP(tier, division, lp) returns.
CallToTotalLP ==
    /\ asked.fn = "toTotalLP"
    /\ got = {}
    /\ got' = {toTotalLP(asked.options[1], asked.options[2], asked.options[3])}
    /\ UNCHANGED <<searchVars, gateVars, asked, met, puts, unsaved, flushed, duo, hostVars, now, aborted,
                   faults>>

\* fromTotalLP(totalLP) returns.
CallFromTotalLP ==
    /\ asked.fn = "fromTotalLP"
    /\ got = {}
    /\ got' = {fromTotalLP(asked.options[1])}
    /\ UNCHANGED <<searchVars, gateVars, asked, met, puts, unsaved, flushed, duo, hostVars, now, aborted,
                   faults>>

\* getTierDivisionsInRange(minLP, maxLP) returns.
CallRange ==
    /\ asked.fn = "getTierDivisionsInRange"
    /\ got = {}
    /\ got' = {getTierDivisionsInRange(asked.options[1], asked.options[2])}
    /\ UNCHANGED <<searchVars, gateVars, asked, met, puts, unsaved, flushed, duo, hostVars, now, aborted,
                   faults>>

RankNext ==
    \/ CallToTotalLP
    \/ CallFromTotalLP
    \/ CallRange

RankSpec == RankInit /\ [][RankNext]_vars

(***************************************************************************)
(* Match statistics: extractPlayerStats and findDuosFromHistory run on     *)
(* match histories of the caller "U".                                      *)
(***************************************************************************)
\* The longest match history findDuosFromHistory is given.
MaxHistory == 3

Participant(p, teamId, win, kills, deaths, assists) ==
    [puuid |-> p, teamId |-> teamId, win |-> win, kills |-> kills, deaths |-> deaths,
     assists |-> assists]

\* match.info.participants of the matches the upstream holds.  "d4" is a
\* match the caller did not play.
DuoMatch(m) ==
    CASE m = "d1" -> << Participant("U", 100, TRUE, 5, 0, 3),
                        Participant("T1", 100, TRUE, 4, 2, 4),
                        Participant("T2", 100, TRUE, 1, 4, 1),
                        Participant("E1", 200, FALSE, 9, 1, 9) >>
      [] m = "d2" -> << Participant("E1", 200, TRUE, 3, 1, 3),
                        Participant("U", 100, FALSE, 5, 2, 3),
                        Participant("T1", 100, FALSE, 2, 1, 0) >>
      [] m = "d3" -> << Participant("T1", 100, FALSE, 8, 1, 4),
                        Participant("E1", 200, TRUE, 2, 2, 3),
                        Participant("U", 200, TRUE, 5, 3, 3),
                        Participant("T2", 200, TRUE, 6, 0, 2) >>
      [] m = "d4" -> << Participant("T1", 100, TRUE, 3, 1, 3),
                        Participant("T2", 200, FALSE, 2, 2, 2) >>
      [] m = "d5" -> << Participant("T2", 100, TRUE, 3, 2, 2),
                        Participant("T1", 100, TRUE, 1, 4, 1),
                        Participant("U", 100, TRUE, 0, 4, 0) >>
      [] m = "d6" -> << Participant("U", 100, FALSE, 1, 8, 2),
                        Participant("T2", 100, FALSE, 5, 4, 4),
                        Participant("T1", 100, FALSE, 6, 2, 1) >>

DuoMatches == {"d1", "d2", "d3", "d4", "d5", "d6"}

\* The match histories getMatchIds may answer with: distinct match ids.
Histories ==
    {h \in UNION {[1..n -> DuoMatches] : n \in 0..MaxHistory} :
        \A i, j \in 1..Len(h) : i # j => h[i] # h[j]}

\* minKDA is held in hundredths.
DuoOptions == {[minKDA |-> k, onlyWins |-> w] : k \in {200, 250}, w \in BOOLEAN}

\* Number.prototype.toFixed(2) of num / den, in hundredths: the nearest
\* hundredth, the larger one of two equally near.
toFixed2(num, den) == (200 * num + den) \div (2 * den)

\* Array.prototype.find: the first participant with the puuid, if any.
FindParticipant(participants, puuid) ==
    LET hits == SelectSeq(participants, LAMBDA p : p.puuid = puuid)
    IN  IF hits = << >> THEN {} ELSE {hits[1]}

\* The ratio for a player without deaths as for one death short of none.
extractPlayerStats_Divide(participants, puuid) ==
    LET found1 == FindParticipant(participants, puuid)
    IN  IF found1 = {} THEN {}
        ELSE LET p == CHOOSE x \in found1 : TRUE
             IN  {[win |-> p.win, kills |-> p.kills, deaths |-> p.deaths,
                   assists |-> p.assists,
                   kda |-> [text |-> TRUE,
                            hundredths |-> toFixed2(p.kills + p.assists,
                                                    IF p.deaths = 0 THEN 1 ELSE p.deaths + 1)]]}

\* extractPlayerStats(match, puuid): {} for null.  kda is a number when the
\* player did not die and the text of toFixed(2) otherwise; both are held in
\* hundredths.
extractPlayerStats(participants, puuid) ==
    LET found1 == FindParticipant(participants, puuid)
    IN  IF found1 = {} THEN {}
        ELSE LET p == CHOOSE x \in found1 : TRUE
             IN  {[win |-> p.win, kills |-> p.kills, deaths |-> p.deaths,
                   assists |-> p.assists,
                   kda |-> IF p.deaths = 0
                           THEN [text |-> FALSE, hundredths |-> 100 * (p.kills + p.assists)]
                           ELSE [text |-> TRUE,
                                 hundredths |-> toFixed2(p.kills + p.assists, p.deaths)]]}

\* findDuosFromHistory's kda of a participant, in quarters: the deaths of
\* the matches above are 0, 1, 2 or 4, so every ratio is a whole number of
\* quarters and the sums of ratios are exact.
Kda4(p) ==
    IF p.deaths = 0 THEN 4 * (p.kills + p.assists)
    ELSE (4 * (p.kills + p.assists)) \div p.deaths

\* Opponents tallied along with teammates.
IsTeammate_Anyone(p, yourPuuid, yourTeamId) == p.puuid # yourPuuid

\* Skip yourself and enemies.
IsTeammate(p, yourPuuid, yourTeamId) == p.puuid # yourPuuid /\ p.teamId = yourTeamId

\* The tally of one participant added to candidates (a Map, in insertion order).
TallyOne(candidates, p) ==
    LET at == {i \in 1..Len(candidates) : candidates[i].puuid = p.puuid}
        base == IF at = {}
                THEN Append(candidates,
                            [puuid |-> p.puuid, gamesPlayed |-> 0, wins |-> 0, totalKDA |-> 0])
                ELSE candidates
        i == CHOOSE k \in 1..Len(base) : base[k].puuid = p.puuid
    IN  [base EXCEPT ![i].gamesPlayed = @ + 1,
                     ![i].wins = @ + (IF p.win THEN 1 ELSE 0),
                     ![i].totalKDA = @ + Kda4(p)]

\* The loop over match.info.participants.
RECURSIVE TallyMatch(_, _, _, _, _)
TallyMatch(candidates, participants, yourPuuid, yourTeamId, minKDA) ==
    IF participants = << >> THEN candidates
    ELSE LET p == Head(participants)
             next == IF ~IsTeammate(p, yourPuuid, yourTeamId) THEN candidates
                     ELSE IF Kda4(p) * 25 < minKDA THEN candidates
                     ELSE TallyOne(candidates, p)
         IN  TallyMatch(next, Tail(participants), yourPuuid, yourTeamId, minKDA)

\* One pass of the loop over matchIds, once getMatchDetails has answered.
ScanOne(candidates, participants, yourPuuid, options) ==
    LET yourStats == extractPlayerStats(participants, yourPuuid)
    IN  IF yourStats = {} THEN candidates
        ELSE IF options.onlyWins /\ ~(CHOOSE x \in yourStats : TRUE).win THEN candidates
        ELSE TallyMatch(candidates, participants, yourPuuid,
                        (CHOOSE x \in FindParticipant(participants, yourPuuid) : TRUE).teamId,
                        options.minKDA)

\* The comparator is negative: a sorts before b.
DuoBefore(a, b) ==
    \/ a.gamesPlayed > b.gamesPlayed
    \/ a.gamesPlayed = b.gamesPlayed /\ a.avgKDA > b.avgKDA

\* Array.prototype.sort is stable: x goes before the first entry it sorts before.
InsertDuo(sorted, x) ==
    LET later == {i \in 1..Len(sorted) : DuoBefore(x, sorted[i])}
        k == IF later = {} THEN Len(sorted) + 1
             ELSE CHOOSE i \in later : \A j \in later : i <= j
    IN  SubSeq(sorted, 1, k - 1) \o <<x>> \o SubSeq(sorted, k, Len(sorted))

RECURSIVE SortDuos(_)
SortDuos(list) ==
    IF list = << >> THEN << >>
    ELSE InsertDuo(SortDuos(SubSeq(list, 1, Len(list) - 1)), list[Len(list)])

\* Array.from(candidates.values()).map(...).sort(...)
DuoResults(candidates) ==
    SortDuos([i \in 1..Len(candidates) |->
                [puuid |-> candidates[i].puuid,
                 gamesPlayed |-> candidates[i].gamesPlayed,
                 wins |-> candidates[i].wins,
                 avgKDA |-> toFixed2(candidates[i].totalKDA,
                                     4 * candidates[i].gamesPlayed)]])

DuoInit ==
    /\ SearchIdle
    /\ GateIdle
    /\ HostIdle
    /\ asked = NoCall
    /\ got = {}
    /\ met = FALSE
    /\ puts = 0
    /\ unsaved = 0
    /\ flushed = FALSE
    /\ \E h \in Histories, o \in DuoOptions :
         duo = [pc |-> "account", history |-> h, options |-> o, yourPuuid |-> NoPuuid,
                matchIds |-> << >>, next |-> 1, yourStats |-> {}, candidates |-> << >>,
                results |-> << >>]
    /\ playerCache = << >>
    /\ disk = << >>
    /\ extraCached = 0
    /\ now = StartTime
    /\ aborted = FALSE
    /\ faults = 0

DuoUnchanged == UNCHANGED <<searchVars, gateVars, hostVars, asked, got, met, puts, unsaved, flushed,
                            now, aborted>>

\* getSummonerByRiotId answers.
DuoAccount ==
    /\ duo.pc = "account"
    /\ duo' = [duo EXCEPT !.pc = "ids", !.yourPuuid = "U"]
    /\ UNCHANGED faults
    /\ DuoUnchanged

\* getMatchIds answers; with no match the function sorts nothing and returns.
DuoIds ==
    /\ duo.pc = "ids"
    /\ duo' = [duo EXCEPT !.matchIds = duo.history,
                          !.pc = IF duo.history = << >> THEN "done" ELSE "detail"]
    /\ UNCHANGED faults
    /\ DuoUnchanged

\* getMatchDetails answers: the match is tallied, and after the last match
\* the candidates are sorted and returned.
DuoDetail ==
    /\ duo.pc = "detail"
    /\ LET participants == DuoMatch(duo.matchIds[duo.next])
           candidates == ScanOne(duo.candidates, participants, duo.yourPuuid, duo.options)
           last == duo.next = Len(duo.matchIds)
       IN  duo' = [duo EXCEPT !.yourStats = extractPlayerStats(participants, duo.yourPuuid),
                             !.candidates = candidates,
                             !.next = @ + 1,
                             !.pc = IF last THEN "done" ELSE "detail",
                             !.results = IF last THEN DuoResults(candidates) ELSE @]
    /\ UNCHANGED faults
    /\ DuoUnchanged

\* The awaited request fails: the error leaves findDuosFromHistory.
DuoFail ==
    /\ duo.pc \in {"account", "ids", "detail"}
    /\ faults < MaxFaults
    /\ faults' = faults + 1
    /\ duo' = [duo EXCEPT !.pc = "failed"]
    /\ DuoUnchanged

DuoNext ==
    \/ DuoAccount
    \/ DuoIds
    \/ DuoDetail
    \/ DuoFail

DuoSpec == DuoInit /\ [][DuoNext]_vars

(***************************************************************************)
(* The one rateLimiter of the process with several callers of apiRequest   *)
(* under way at once, each one between the awaits of wait() and fetch.     *)
(***************************************************************************)
MaxShared == 3
Callers == {1, 2}

CallerIdle == [pc |-> "idle", wake |-> 0]

Sleeping(c) == callers[c].pc = "sleep"

\* Timers fire in the order of their deadlines: nothing runs at time t while
\* a sleep that ends before t is pending.
NoTimerBefore(t) == \A o \in Callers : Sleeping(o) => t <= callers[o].wake

SharedInit ==
    /\ SearchOff
    /\ GateIdle
    /\ ProbeIdle
    /\ callers = [c \in Callers |-> CallerIdle]
    /\ sseResponse = Null
    /\ streams = << >>
    /\ now = StartTime
    /\ aborted = FALSE
    /\ faults = 0

\* this.lastRequest = Date.now() at time t, and caller c's fetch.
SharedRelease(c, t) ==
    /\ lastRequest' = t
    /\ lastGap' = IF releasedAt = Null THEN Null ELSE t - releasedAt
    /\ releasedAt' = t
    /\ callers' = [callers EXCEPT ![c] = [pc |-> "fetch", wake |-> 0]]
    /\ now' = t

SharedUnchanged ==
    UNCHANGED <<gpc, wake, waited, polls, coolStart, cooledFor, notes, waits, netCalls,
                limited, late, gerr, searchVars, probeVars, sseResponse, streams,
                aborted, faults>>

\* Caller c calls apiRequest: wait() up to its sleep, or through to the fetch.
SharedCall(c) ==
    /\ callers[c].pc = "idle"
    /\ calls < MaxShared
    /\ calls' = calls + 1
    /\ \E d \in ThinkTimes :
         LET t == now + d
             elapsed == t - lastRequest
         IN  /\ NoTimerBefore(t)
             /\ IF SleepNeeded(elapsed)
                THEN /\ callers' = [callers EXCEPT
                                       ![c] = [pc |-> "sleep",
                                               wake |-> t + (minDelay - elapsed)]]
                     /\ now' = t
                     /\ UNCHANGED <<lastRequest, lastGap, releasedAt>>
                ELSE SharedRelease(c, t)
    /\ SharedUnchanged

\* Caller c's sleep in wait() is over.
SharedWake(c) ==
    /\ Sleeping(c)
    /\ NoTimerBefore(callers[c].wake)
    /\ SharedRelease(c, callers[c].wake)
    /\ UNCHANGED calls
    /\ SharedUnchanged

\* Caller c's fetch is answered.
SharedRespond(c) ==
    /\ callers[c].pc = "fetch"
    /\ \E d \in Latencies :
         /\ NoTimerBefore(now + d)
         /\ now' = now + d
    /\ callers' = [callers EXCEPT ![c] = CallerIdle]
    /\ UNCHANGED <<calls, lastRequest, lastGap, releasedAt>>
    /\ SharedUnchanged

SharedNext ==
    \E c \in Callers :
        \/ SharedCall(c)
        \/ SharedWake(c)
        \/ SharedRespond(c)

SharedSpec == SharedInit /\ [][SharedNext]_vars

(***************************************************************************)
(* The server: handleRequest for /api/scout, one await (the search) per    *)
(* request, and the events the searches write through sseResponse.         *)
(***************************************************************************)
MaxRequests == 2
MaxEvents == 2

Requests == 1..MaxRequests

\* A response: not yet asked for, open (its search under way) or ended; the
\* events written to it, each with the request whose search produced it; and
\* how many players the search of this request has announced.
NoStream == [state |-> "none", events |-> << >>, announced |-> 0]

ServerInit ==
    /\ SearchOff
    /\ GateIdle
    /\ ProbeIdle
    /\ callers = << >>
    /\ sseResponse = Null
    /\ streams = [r \in Requests |-> NoStream]
    /\ now = StartTime
    /\ aborted = FALSE
    /\ faults = 0

ServerUnchanged ==
    UNCHANGED <<searchVars, gateVars, probeVars, callers, now, aborted, faults>>

\* The stream sendPlayerFound writes to, if any.
playerTarget(r) == IF sseResponse = Null THEN {} ELSE {sseResponse}

\* streams after the search of request r has called sendPlayerFound.
sendPlayerFound(r) ==
    [q \in Requests |->
        [streams[q] EXCEPT
            !.events = IF q \in playerTarget(r)
                       THEN Append(@, [type |-> "player", of |-> r]) ELSE @,
            !.announced = IF q = r THEN @ + 1 ELSE @]]

\* A request for /api/scout arrives: headers, sseResponse = res, and
\* scoutPlayers up to its first await.
Arrive(r) ==
    /\ streams[r].state = "none"
    /\ streams' = [streams EXCEPT ![r].state = "open"]
    /\ sseResponse' = r
    /\ ServerUnchanged

\* The search of request r accepts a player.
Announce(r) ==
    /\ streams[r].state = "open"
    /\ streams[r].announced < MaxEvents
    /\ streams' = sendPlayerFound(r)
    /\ UNCHANGED sseResponse
    /\ ServerUnchanged

\* scoutPlayers returns or throws to the handler of request r.
Finish(r) ==
    /\ streams[r].state = "open"
    /\ \E type \in {"complete", "error"} :
         streams' = [streams EXCEPT
                        ![r].events = Append(@, [type |-> type, of |-> r]),
                        ![r].state = "ended"]
    /\ sseResponse' = Null
    /\ ServerUnchanged

ServerNext ==
    \E r \in Requests :
        \/ Arrive(r)
        \/ Announce(r)
        \/ Finish(r)

ServerSpec == ServerInit /\ [][ServerNext]_vars

(***************************************************************************)
(* Properties of the search.                                               *)
(***************************************************************************)
Finished == pc \in {"done", "failed"}

ResultIds == {results[i].puuid : i \in 1..Len(results)}

\* C1: the result list never holds more than maxPlayers entries, through
\* page, cache and teammate acceptance alike, and with maxPlayers = 0 it is
\* empty and no ladder page is requested.
C1_ResultsWithinTarget ==
    /\ Len(results) <= cfg.maxPlayers
    /\ cfg.maxPlayers = 0 => (results = << >> /\ fetchCount = 0)

\* Teammate expansion filled the list while participants were still waiting.
C1_Witness ==
    /\ pc = "parts"
    /\ parts # << >>
    /\ Len(results) = cfg.maxPlayers
    /\ \E i \in 1..Len(results) : results[i].fromMatch

\* C2: no two entries of the result list carry the same player identifier.
C2_NoDuplicateIds ==
    \A i, j \in 1..Len(results) : i # j => results[i].puuid # results[j].puuid

\* A player accepted as a teammate, or in the other queue, shows up on the
\* ladder page being processed.
C2_Witness ==
    /\ pc = "entries"
    /\ \E e \in todo : \E i \in 1..Len(results) :
         /\ results[i].puuid = e.puuid
         /\ results[i].fromMatch \/ results[i].queue # QueueShort(combo.queue)

\* Entries of page 1 of the searched ladders that pass the entry filters.
QualifyingOnPage1 ==
    {<<c, e>> \in UNION {{c} \X Ladder(c, 1) : c \in DOMAIN combos} :
        /\ ~OutsideRange(toTotalLP(c.tier, c.division, e.leaguePoints))
        /\ ~WinRateBelow(e.wins, e.losses, cfg.minWinRate)
        /\ e.puuid # NoPuuid}

\* Every page beyond page 1 is empty, page 1 holds fewer qualifying entries
\* than maxPlayers, every request succeeded and nobody aborted.
SparseLadderRun ==
    /\ \A q \in DOMAIN lastPage : lastPage[q] <= 1
    /\ Cardinality(QualifyingOnPage1) < cfg.maxPlayers
    /\ faults = 0
    /\ ~aborted

\* C3 as stated: on a sparse ladder the search returns with every combination
\* exhausted and a partial list.
C3_AsStated ==
    (pc = "done" /\ SparseLadderRun)
        => (activeCombinations = {} /\ Len(results) < cfg.maxPlayers)

\* C3, amended: with every request answered successfully the search returns,
\* and on a sparse ladder it returns either with every combination exhausted
\* and a partial list, or with maxPlayers entries of which some are match
\* participants that are no qualifying entry of a ladder page.
C3_TerminatesOnSparseLadder ==
    /\ <>(pc = "done" \/ faults > 0)
    /\ []((pc = "done" /\ SparseLadderRun)
            => \/ activeCombinations = {} /\ Len(results) < cfg.maxPlayers
               \/ /\ Len(results) = cfg.maxPlayers
                  /\ ResultIds \ {ce[2].puuid : ce \in QualifyingOnPage1} # {})

\* The search returned a partial list by exhausting a sparse ladder.
C3_Witness ==
    /\ pc = "done"
    /\ SparseLadderRun
    /\ activeCombinations = {}
    /\ fetchCount > Cardinality(DOMAIN combos)
    /\ 0 < Len(results) /\ Len(results) < cfg.maxPlayers

\* C4: a combination marked exhausted has no untried page left within
\* [1, currentMaxPage].
C4_ExhaustedOnlyWhenAllTried ==
    \A c \in DOMAIN combos :
        combos[c].maxPageReached => untriedPages(c) = {}

\* C5: once the abort predicate is true the search, unless an API error ends
\* it, returns normally with the cache persisted.
C5_AbortReturnsNormally ==
    (aborted /\ Finished /\ thrown \notin {"e403", "e500"})
        => (pc = "done" /\ disk = playerCache)

\* C7: after a 403 answer to any request the search has failed with that
\* error and is issuing nothing further.
C7_ForbiddenIsFatal ==
    status = 403 => (pc = "failed" /\ thrown = "e403")

\* C9: a finished search has saved the cache after its last cache mutation.
C9_CacheSavedAtEnd ==
    Finished => disk = playerCache

\* C10: every entry of the result list has lastActiveMinutes within the
\* activity window.
C10_ResultsWithinWindow ==
    \A i \in 1..Len(results) :
        results[i].lastActiveMinutes <= cfg.activeWithinMinutes

\* The list holds a cache-sourced entry whose minutes were adjusted for the
\* record's age, and a freshly looked-up one.
C10_Witness ==
    /\ \E i \in 1..Len(results) :
         /\ results[i].fromCache
         /\ results[i].lastActiveMinutes > playerCache[results[i].puuid].lastActiveMinutes
    /\ \E i \in 1..Len(results) : ~results[i].fromCache

\* C11: with an LP range active every entry of the result list has a numeric
\* totalLP within [minLP, maxLP].
C11_ResultsWithinRange ==
    (cfg.minLP # Null /\ cfg.maxLP # Null) =>
        \A i \in 1..Len(results) :
            /\ results[i].totalLP # Null
            /\ cfg.minLP <= results[i].totalLP
            /\ results[i].totalLP <= cfg.maxLP

\* C12: every entry of the result list has a win rate of at least minWinRate,
\* the win rate of a player without games being 0.
C12_ResultsAboveWinRate ==
    \A i \in 1..Len(results) :
        ~WinRateBelow(results[i].wins, results[i].losses, cfg.minWinRate)

\* The step appends a player who has a record in the cache that is at most
\* one hour old and meets the criteria.
AcceptsCached ==
    /\ Len(results') = Len(results) + 1
    /\ LET p == results'[Len(results')].puuid
       IN  \E r \in getCachedPlayer(playerCache, p, now) :
              cachedPlayerMeetsCriteria(r, cacheOptions, now)

\* The step takes a candidate from a ladder page's entries or from a match's
\* participants.
TakesCandidate ==
    \/ pc = "entries" /\ todo' # todo
    \/ pc = "parts" /\ parts' # parts

\* C13: a candidate with a cache record at most one hour old that meets the
\* criteria is accepted in the step that takes it up, which issues no
\* request and leaves the cache and its file as they are.
C13_CacheHitIsFree ==
    [][AcceptsCached =>
          /\ TakesCandidate
          /\ pc' \notin Awaiting
          /\ fetchCount' = fetchCount
          /\ playerCache' = playerCache
          /\ disk' = disk]_vars

\* A cached candidate was accepted from the first ladder page fetched: that
\* page is the only request so far and the cache is as it was loaded.
C13_Witness ==
    /\ pc = "entries"
    /\ Len(results) = 1
    /\ results[1].fromCache
    /\ fetchCount = 1
    /\ faults = 0
    /\ \A p \in DOMAIN playerCache : playerCache[p].cachedAt < StartTime
    /\ disk = playerCache

\* The step opens the participants of the accepted player's match.
StartsExpansion == pc = "name" /\ pc' = "parts"

\* C14: the participants of a match are expanded at most once in a search:
\* an expansion starts only for a match not expanded before and records it,
\* and the record of expanded matches never shrinks.
C14_MatchExpandedOnce ==
    [][/\ StartsExpansion =>
             /\ activity.match.matchId \notin processedMatchIds
             /\ activity.match.matchId \in processedMatchIds'
       /\ processedMatchIds \subseteq processedMatchIds']_vars

\* Two players of the same match were accepted from fresh ladder lookups, the
\* second after the match had been expanded, with room left in the list: the
\* second acceptance went back to the page's entries.
C14_Witness ==
    /\ pc = "entries"
    /\ Len(results) < cfg.maxPlayers
    /\ \E i, j \in 1..Len(results) :
         /\ i < j
         /\ ~results[i].fromCache /\ ~results[i].fromMatch
         /\ ~results[j].fromCache /\ ~results[j].fromMatch
         /\ MatchIdsOf(results[i].puuid) = MatchIdsOf(results[j].puuid)
         /\ MatchIdsOf(results[j].puuid)[1] \in processedMatchIds

\* The step ends a participant's profile or standings lookup in a failure: an
\* error status, an abort during the cool-down, no summoner id, no standings.
TeammateLookupFails ==
    /\ pc \in {"summoner", "league"}
    /\ pc' # pc
    /\ \/ status' # 200
       \/ pc = "summoner" /\ SummonerIdOf(part) = {}
       \/ pc = "league" /\ StandingsOf(part) = << >>

\* C15: a failed profile or standings lookup of a participant adds no result
\* and raises nothing: the search is back in the participant loop with the
\* remaining participants, its results as they were.
C15_TeammateFailureSkips ==
    [][TeammateLookupFails =>
          /\ results' = results
          /\ found' = found
          /\ pc' = "parts"
          /\ parts' = parts
          /\ thrown' = thrown
          /\ playerCache' = playerCache]_vars

\* A participant's lookup was answered with an error status; the search is in
\* the participant loop with participants left and only the ladder player
\* accepted.
C15_Witness ==
    /\ pc = "parts"
    /\ status \in {403, 500}
    /\ parts # << >>
    /\ Len(results) = 1
    /\ results[1].puuid = entry.puuid
    /\ thrown = "none"

\* The step ends a display-name lookup in a failure: an error status or an
\* abort during the cool-down.
NameLookupFails == pc \in {"name", "pname"} /\ pc' # pc /\ status' # 200

\* C16: when the display-name lookup fails the player is accepted all the
\* same, with the name 'Unknown': appended to the results, reported to the
\* observer and cached, and the search goes on.
C16_NameFailureDegrades ==
    [][NameLookupFails =>
          LET p == IF pc = "name" THEN entry.puuid ELSE part
              x == results'[Len(results')]
          IN  /\ Len(results') = Len(results) + 1
              /\ x.puuid = p
              /\ x.name = "Unknown"
              /\ found' = Append(found, x)
              /\ p \in DOMAIN playerCache'
              /\ playerCache'[p].name = "Unknown"
              /\ playerCache'[p].cachedAt = now'
              /\ pc' \in {"entries", "parts"}
              /\ thrown' = thrown]_vars

\* A player found on the ladder was accepted under the name 'Unknown' after
\* its name lookup was answered with an error status.
C16_Witness ==
    /\ pc \in {"entries", "parts"}
    /\ status \in {403, 500}
    /\ results # << >>
    /\ results[Len(results)].name = "Unknown"
    /\ ~results[Len(results)].fromMatch
    /\ thrown = "none"

\* C17: the players the 'player found' observer was called with are, in
\* order, the entries of the result list.
C17_FoundIsResults == found = results

\* A finished search reported a fresh ladder player, a cache-sourced player
\* and a freshly looked-up participant.
C17_Witness ==
    /\ pc = "done"
    /\ \E i \in 1..Len(found) : ~found[i].fromCache /\ ~found[i].fromMatch
    /\ \E i \in 1..Len(found) : found[i].fromCache
    /\ \E i \in 1..Len(found) : ~found[i].fromCache /\ found[i].fromMatch

\* The ladder entries within the page ceiling, with their combination and page.
CeilingEntries ==
    {x \in searchCombinations \X (1..PageCeiling) \X
            UNION {Ladder(c, pg) : c \in searchCombinations, pg \in 1..PageCeiling} :
        x[3] \in Ladder(x[1], x[2])}

\* Every ladder page within the page ceiling is non-empty and every entry on
\* it passes the filters, was active within the window and has an identifier
\* no other entry has; maxPlayers does not exceed the number of entries.
FullLadder ==
    /\ ~RangeRejected
    /\ \A c \in searchCombinations, pg \in 1..PageCeiling : Ladder(c, pg) # {}
    /\ \A x \in CeilingEntries :
          LET e == x[3]
          IN  /\ ~OutsideRange(toTotalLP(x[1].tier, x[1].division, e.leaguePoints))
              /\ ~WinRateBelow(e.wins, e.losses, cfg.minWinRate)
              /\ e.puuid # NoPuuid
              /\ MatchIdsOf(e.puuid) # << >>
              /\ minutesAgo(MatchOf(MatchIdsOf(e.puuid)[1]), StartTime)
                    <= cfg.activeWithinMinutes
    /\ \A x, y \in CeilingEntries : x[3].puuid = y[3].puuid => x = y
    /\ cfg.maxPlayers <= Cardinality(CeilingEntries)

fromCacheCount(seq) == Cardinality({i \in 1..Len(seq) : seq[i].fromCache})

freshCount(seq) == Len(seq) - fromCacheCount(seq)

\* C18: on a full ladder, with every request answered successfully and no
\* abort, the search returns exactly maxPlayers entries with distinct
\* identifiers, and its cache-sourced and fresh counts add up to maxPlayers.
C18_FullLadderFillsTarget ==
    (pc = "done" /\ FullLadder /\ faults = 0 /\ ~aborted) =>
        /\ Len(results) = cfg.maxPlayers
        /\ Cardinality(ResultIds) = cfg.maxPlayers
        /\ fromCacheCount(results) + freshCount(results) = cfg.maxPlayers

\* A search over a full ladder returned maxPlayers entries, at least two,
\* some cache-sourced and some fresh.
C18_Witness ==
    /\ pc = "done"
    /\ FullLadder
    /\ faults = 0
    /\ ~aborted
    /\ cfg.maxPlayers >= 2
    /\ Len(results) = cfg.maxPlayers
    /\ \E i \in 1..Len(results) : results[i].fromCache
    /\ \E i \in 1..Len(results) : ~results[i].fromCache

(***************************************************************************)
(* Properties of the request gate.                                         *)
(***************************************************************************)
\* The observer's calls of a request that met n 429 answers and waited each
\* of them out.
Alternating(n) ==
    [i \in 1..(2 * n) |-> IF i % 2 = 1 THEN <<TRUE, waitTime \div MsPerSecond>>
                                       ELSE <<FALSE, 0>>]

\* C6: with the abort predicate never true, a request answered 429 k times
\* and then 200 returns; each 429 is followed, in this order, by the observer
\* call (true, 120), a cool-down of at least 120000 ms made of 1000 ms sleeps
\* with the abort predicate polled before each, the observer call (false, 0)
\* and a re-issue behind a new wait(); the request makes k+1 fetch calls.
C6_OverloadProtocol ==
    ~aborted =>
        /\ gpc = "threw" => gerr \in {"API Key invalid or expired", "API Error"}
        /\ gpc = "cool" =>
              /\ notes = SubSeq(Alternating(limited), 1, 2 * limited - 1)
              /\ netCalls = limited
              /\ waits = limited
              /\ polls = waited \div checkInterval + 1
              /\ wake - coolStart >= waited + checkInterval
        /\ (gpc \in {"fetch", "returned"} /\ limited > 0) =>
              /\ polls = waitTime \div checkInterval
              /\ waited = waitTime
              /\ cooledFor >= waitTime
        /\ gpc \in {"fetch", "returned"} =>
              /\ notes = Alternating(limited)
              /\ netCalls = limited + 1
              /\ waits = limited + 1

C6_Witness ==
    /\ gpc = "returned"
    /\ ~aborted
    /\ limited = 1
    /\ netCalls = 2
    /\ cooledFor > waitTime

\* C8: two consecutive fetch calls of a single caller, the re-issue after a
\* cool-down included, are at least 1000/requestsPerSecond ms apart, and
\* wait() does not sleep before the first fetch.
C8_ReleasesSpaced ==
    /\ lastGap # Null => lastGap >= minDelay
    /\ gpc = "gateSleep" => releasedAt # Null
    /\ releasedAt # Null => lastRequest = releasedAt

C8_Witness ==
    /\ gpc = "fetch"
    /\ calls = 2
    /\ limited = 0
    /\ lastGap = minDelay

\* C32: when a request is over, by a payload or by an error, the observer's
\* latest notification, if it got one, is 'not limited'.
C32_LimitedCleared ==
    (gpc \in {"returned", "threw"} /\ notes # << >>) => ~notes[Len(notes)][1]

\* C37: with several callers on the one rate limiter, any two consecutive
\* fetch calls of the process are at least 1000/requestsPerSecond ms apart.
C37_SharedReleasesSpaced ==
    (callers # << >> /\ lastGap # Null) => lastGap >= minDelay

Terminal(e) == e.type \in {"complete", "error"}

\* C38: in the server one search runs at a time; a response receives the
\* events of its own search only, all of them, and once ended it holds one
\* terminal event, the last one.
C38_OneSearchAtATime ==
    streams # << >> =>
        /\ Cardinality({r \in Requests : streams[r].state = "open"}) <= 1
        /\ \A r \in Requests :
             LET ev == streams[r].events
             IN  /\ \A i \in 1..Len(ev) : ev[i].of = r
                 /\ Cardinality({i \in 1..Len(ev) : ev[i].type = "player"})
                      = streams[r].announced
                 /\ streams[r].state = "ended" =>
                      /\ ev # << >>
                      /\ \A i \in 1..Len(ev) : Terminal(ev[i]) <=> i = Len(ev)

(***************************************************************************)
(* Properties of the cache functions.                                      *)
(***************************************************************************)
OneHour == 60 * MsPerMinute

\* The whole minutes in ms milliseconds.
WholeMinutes(ms) == CHOOSE k \in 0..(ms \div MsPerMinute + 1) :
                        k * MsPerMinute <= ms /\ ms < (k + 1) * MsPerMinute

\* C19: getCachedPlayer returns nothing older than one hour, returns the
\* stored record as it is when that record is at most one hour old, and
\* leaves a stale record in the cache.
C19_GetRespectsAge ==
    asked.fn = "getCachedPlayer" =>
        LET p == asked.puuid
            stored == p \in DOMAIN playerCache
        IN  /\ \A r \in got : asked.at - r.cachedAt <= OneHour
            /\ (stored /\ asked.at - playerCache[p].cachedAt <= OneHour)
                  => got = {playerCache[p]}
            /\ (~stored \/ asked.at - playerCache[p].cachedAt > OneHour) => got = {}
            /\ playerCache = disk

\* A record one millisecond over the hour was asked for: nothing was returned
\* and the record is still in the cache.
C19_Witness ==
    /\ asked.fn = "getCachedPlayer"
    /\ asked.puuid \in DOMAIN playerCache
    /\ asked.at - playerCache[asked.puuid].cachedAt = OneHour + 1
    /\ got = {}

C21_SaveEveryNthUpsert ==
    /\ asked.fn = "cachePlayer" => (flushed <=> puts % SaveEvery = 0)
    /\ unsaved <= SaveEvery - 1

\* The step of the while loop that requests a ladder page.
FetchesPage == pc = "loop" /\ pc' = "page"

\* C29: the page requested for a combination lies in 1..currentMaxPage, was
\* not tried before and is marked tried when the request goes out; no
\* (combination, page) is requested twice, and at most PageCeiling pages are
\* requested per combination.
C29_NoPageTwice ==
    [][/\ FetchesPage =>
            /\ page' \in 1..combos[combo'].currentMaxPage
            /\ page' \notin combos[combo'].triedPages
            /\ page' \in combos'[combo'].triedPages
            /\ <<combo', page'>> \notin fetched
       /\ fetchCount' = Cardinality(fetched')
       /\ fetchCount' <= PageCeiling * Cardinality(DOMAIN combos')]_vars

\* Every page of every combination of a two-queue search was requested.
C29_Witness ==
    /\ Cardinality(DOMAIN combos) = 2
    /\ fetchCount = PageCeiling * Cardinality(DOMAIN combos)
    /\ \A c \in DOMAIN combos : combos[c].triedPages = 1..PageCeiling

\* C30: once created as the cross product of the queues and tier/divisions
\* searched, the set of combinations stays as it is; a combination's
\* currentMaxPage never grows and never exceeds PageCeiling, its tried pages
\* only grow, and an exhausted combination stays exhausted and is never
\* again the one a page is requested for.
C30_CombinationsFixed ==
    [][/\ (pc = "start" /\ pc' = "loop") => DOMAIN combos' = searchCombinations
       /\ pc \notin {"start", "off"} =>
            /\ DOMAIN combos' = DOMAIN combos
            /\ \A c \in DOMAIN combos :
                  /\ combos'[c].currentMaxPage <= combos[c].currentMaxPage
                  /\ combos'[c].currentMaxPage <= PageCeiling
                  /\ combos[c].triedPages \subseteq combos'[c].triedPages
                  /\ combos[c].maxPageReached =>
                        /\ combos'[c].maxPageReached
                        /\ ~(FetchesPage /\ combo' = c)]_vars

\* In a two-queue search one combination is exhausted, with its estimate
\* lowered, while a page of the other one is being processed.
C30_Witness ==
    /\ Cardinality(DOMAIN combos) = 2
    /\ pc \notin {"loop", "done", "failed"}
    /\ \E c \in DOMAIN combos :
         /\ c # combo
         /\ combos[c].maxPageReached
         /\ combos[c].currentMaxPage < PageCeiling
         /\ combos[c].triedPages # {}

\* The abort predicate is true at a poll of one of the three loops, which the
\* step about to be taken begins with.
PolledInLoop == aborted /\ pc \in {"loop", "entries", "parts"}

\* The step ends a request whose cool-down saw the abort predicate true.
PolledInCoolDown == pc \in Awaiting /\ aborted' /\ status' = 429

\* C31: from the poll that finds the abort predicate true on, no request is
\* issued, no result appended and no cache record written.
C31_AbortStopsWork ==
    [][(PolledInLoop \/ PolledInCoolDown) =>
            /\ pc' \notin Awaiting
            /\ results' = results
            /\ playerCache' = playerCache]_vars

\* C33: every freshly observed entry of the result list has, at every await
\* from its acceptance to the end of the search, a cache record under its
\* identifier that holds the entry's fields as accepted and the time of the
\* acceptance as its capture time.
C33_FreshResultsCached ==
    \A i \in 1..Len(results) :
        ~results[i].fromCache =>
            /\ results[i].puuid \in DOMAIN playerCache
            /\ playerCache[results[i].puuid]
                  = [results[i] EXCEPT !.cachedAt = results[i].updatedAt]
            /\ \E j \in 1..Len(found) : found[j] = results[i]

\* The search is over; a player accepted from a ladder page over a stale
\* record and a teammate accepted after it are both cached as accepted, the
\* first one two minutes or more before the end.
C33_Witness ==
    /\ pc = "done"
    /\ \E i, j \in 1..Len(results) :
         /\ i < j
         /\ ~results[i].fromCache /\ ~results[i].fromMatch
         /\ ~results[j].fromCache /\ results[j].fromMatch
         /\ now >= results[i].updatedAt + waitTime
         /\ playerCache[results[i].puuid].cachedAt = results[i].updatedAt
         /\ \E f \in CacheFiles :
              /\ results[i].puuid \in DOMAIN f[1]
              /\ f[1][results[i].puuid].cachedAt < StartTime - CACHE_MAX_AGE

\* C34: the last activity of a player is looked up at most once in a search:
\* no lookup starts for a player whose lookup was started before.
C34_OneLookupPerPlayer ==
    [][(pc = "entries" /\ pc' = "ids") => entry'.puuid \notin lookedUp]_vars

\* C35: every entry of the result list reports one of the queues the search
\* was asked for.
C35_ResultsInSelectedQueues ==
    \A i \in 1..Len(results) :
        \E q \in queuesToSearch : results[i].queue = QueueShort(q)

\* C36: in a search for an explicit tier and division, with no LP range,
\* every entry of the result list has that tier and that division.
C36_ResultsInAskedRank ==
    (cfg.minLP = Null /\ cfg.maxLP = Null) =>
        \A i \in 1..Len(results) :
            /\ results[i].tier = cfg.tier
            /\ results[i].division = cfg.division

\* The search is over because no combination was left, not because of the
\* target count, an abort or an error.
StoppedByExhaustion ==
    /\ pc = "done"
    /\ ~RangeRejected
    /\ ~aborted
    /\ Len(results) < cfg.maxPlayers

\* C39: when the search stops by exhaustion, every non-empty page of every
\* combination has been fetched, as the linear scan of pages 1, 2, ... up to
\* the first empty page would have.
C39_ExhaustionCoversLadder ==
    StoppedByExhaustion =>
        \A c \in DOMAIN combos : \A p \in 1..PageCeiling :
            Ladder(c, p) # {} => <<c, p>> \in fetched

(***************************************************************************)
(* Properties of the options.                                              *)
(***************************************************************************)
\* The lpRange option is a string that is not two runs of digits with one
\* '-' between them.
Malformed(text) ==
    /\ text # NoRange
    /\ ~\E i \in 2..(Len(text) - 1) :
           /\ text[i] = "-"
           /\ \A j \in 1..Len(text) : j # i => text[j] \in {Digits[k] : k \in 1..Len(Digits)}

\* C22: with a malformed lpRange the search does not start (no request, no
\* observer call, cache and file as loaded) and ends in a configuration
\* error, not in a result list.
C22_BadRangeIsAnError ==
    Malformed(cfg.lpRange) =>
        /\ fetchCount = 0
        /\ found = << >>
        /\ \E f \in CacheFiles : playerCache = f[1] /\ disk = f[1]
        /\ pc = "done" => thrown # "none"

(***************************************************************************)
(* Properties of the rank-LP codec.                                        *)
(***************************************************************************)
\* The value a direct call returned.
Value == CHOOSE v \in got : TRUE

\* A call of toTotalLP with a non-apex tier, a division and points of 0..99.
ValidRankAsked ==
    /\ asked.fn = "toTotalLP"
    /\ got # {}
    /\ asked.options[1] \in TierNames
    /\ asked.options[2] \in DivisionNames
    /\ asked.options[3] \in 0..99

\* The rank after (tier, division, points) in the order of ranks; the rank
\* itself for the last one.
NextRank(tier, division, points) ==
    LET t == IndexOf(TIERS, tier) + 1
        d == IndexOf(DIVISIONS, division) + 1
    IN  IF points < 99 THEN <<tier, division, points + 1>>
        ELSE IF d < Len(DIVISIONS) THEN <<tier, DIVISIONS[d + 1], 0>>
        ELSE IF t < Len(TIERS) THEN <<TIERS[t + 1], DIVISIONS[1], 0>>
        ELSE <<tier, division, points>>

\* C23: fromTotalLP undoes toTotalLP on every non-apex rank with points of
\* 0..99, toTotalLP undoes fromTotalLP on every total of 0..2799, and
\* toTotalLP gives the next rank a larger total.
C23_RoundTrip ==
    /\ ValidRankAsked =>
          LET a == asked.options
              n == NextRank(a[1], a[2], a[3])
          IN  /\ fromTotalLP(Value) = [tier |-> a[1], division |-> a[2], lp |-> a[3]]
              /\ n # a => toTotalLP(n[1], n[2], n[3]) > Value
    /\ (asked.fn = "fromTotalLP" /\ got # {} /\ asked.options[1] \in 0..2799) =>
          toTotalLP(Value.tier, Value.division, Value.lp) = asked.options[1]

\* The two examples of the round trip: SILVER IV 50 <-> 850, GOLD I 75 <-> 1575.
C23_Witness ==
    \/ asked.fn = "toTotalLP" /\ asked.options = <<"GOLD", "I", 75>> /\ got = {1575}
    \/ /\ asked.fn = "fromTotalLP"
       /\ asked.options = <<850>>
       /\ got = {[tier |-> "SILVER", division |-> "IV", lp |-> 50]}

\* Every (tier, division) pair below the apex.
AllBands == {[tier |-> t, division |-> d] : t \in TierNames, d \in DivisionNames}

\* Where a pair stands in tier-major, division-major order, and the first
\* total of its band.
BandRank(b) == IndexOf(TIERS, b.tier) * Len(DIVISIONS) + IndexOf(DIVISIONS, b.division)
BandStart(b) == BandRank(b) * 100

\* The band [start, start + 99] and the range [minLP, maxLP] share a total.
Intersects(b, minLP, maxLP) ==
    \E x \in BandStart(b)..(BandStart(b) + 99) : minLP <= x /\ x <= maxLP

RangeAsked == asked.fn = "getTierDivisionsInRange" /\ got # {}

\* C24: getTierDivisionsInRange returns, each once and in tier-major then
\* division-major order, the pairs whose band intersects [minLP, maxLP];
\* (800, 1000) gives Silver IV, III, II; minLP > maxLP or a range from 2800
\* up gives nothing.
C24_RangeBands ==
    RangeAsked =>
        LET minLP == asked.options[1]
            maxLP == asked.options[2]
            r == Value
        IN  /\ {r[i] : i \in 1..Len(r)} = {b \in AllBands : Intersects(b, minLP, maxLP)}
            /\ \A i, j \in 1..Len(r) : i < j => BandRank(r[i]) < BandRank(r[j])
            /\ (minLP = 800 /\ maxLP = 1000) =>
                  r = << [tier |-> "SILVER", division |-> "IV"],
                         [tier |-> "SILVER", division |-> "III"],
                         [tier |-> "SILVER", division |-> "II"] >>
            /\ (minLP > maxLP \/ minLP >= 2800) => r = << >>

\* C25: toTotalLP called with a tier or division name that is, in upper
\* case, none of the recognised names returns nothing: it fails with
\* InvalidRank.
C25_UnknownRankFails ==
    (/\ asked.fn = "toTotalLP"
     /\ \/ toUpperCase(asked.options[1]) \notin TierNames
        \/ toUpperCase(asked.options[2]) \notin DivisionNames)
        => got = {}

\* C26: fromTotalLP gives the lowest rank with no points below 0; the apex
\* tier, no division and total - 2800 points from 2800 on; and otherwise the
\* tier total div 400, the division (total mod 400) div 100 and total mod 100
\* points.
C26_FromTotalLP ==
    (asked.fn = "fromTotalLP" /\ got # {}) =>
        LET total == asked.options[1]
        IN  /\ total < 0 => Value = [tier |-> "IRON", division |-> "IV", lp |-> 0]
            /\ total >= 2800 =>
                  /\ Value.tier = "MASTER"
                  /\ Value.lp = total - 2800
                  /\ Value.division \notin DivisionNames
            /\ (0 <= total /\ total < 2800) =>
                  Value = [tier |-> TIERS[(total \div 400) + 1],
                           division |-> DIVISIONS[((total % 400) \div 100) + 1],
                           lp |-> total % 100]

(***************************************************************************)
(* Properties of the match statistics.                                     *)
(***************************************************************************)
\* The participants of the match findDuosFromHistory scanned last.
LastScanned == DuoMatch(duo.matchIds[duo.next - 1])

\* The caller's entries in a list of participants.
Mine(participants) ==
    {participants[i] : i \in {j \in 1..Len(participants) : participants[j].puuid = "U"}}

\* C27: findDuosFromHistory returns one entry for each player other than the
\* caller who, in some scanned match the caller played (and won, under
\* onlyWins), was on the caller's team with a KDA of at least minKDA; the
\* entry counts exactly those matches; entries are in descending order of
\* that count and, among equal counts, of average KDA.
C27_DuoTally ==
    duo.pc = "done" =>
        LET ids == duo.matchIds
            o == duo.options
            Strong(q) == IF q.deaths = 0 THEN 100 * (q.kills + q.assists) >= o.minKDA
                         ELSE 100 * (q.kills + q.assists) >= o.minKDA * q.deaths
            Counted(p, i) ==
                LET ps == DuoMatch(ids[i])
                IN  \E me \in Mine(ps), k \in 1..Len(ps) :
                        /\ ps[k].puuid = p
                        /\ p # "U"
                        /\ ps[k].teamId = me.teamId
                        /\ o.onlyWins => me.win
                        /\ Strong(ps[k])
            Count(p) == Cardinality({i \in 1..Len(ids) : Counted(p, i)})
            r == duo.results
        IN  /\ {r[i].puuid : i \in 1..Len(r)} = {p \in {"U", "T1", "T2", "E1"} : Count(p) > 0}
            /\ \A i, j \in 1..Len(r) : i # j => r[i].puuid # r[j].puuid
            /\ \A i \in 1..Len(r) : r[i].gamesPlayed = Count(r[i].puuid)
            /\ \A i, j \in 1..Len(r) :
                  i < j => \/ r[i].gamesPlayed > r[j].gamesPlayed
                           \/ /\ r[i].gamesPlayed = r[j].gamesPlayed
                              /\ r[i].avgKDA >= r[j].avgKDA

\* Three matches were scanned; a partner of two of them stands before a
\* partner of one match who has the higher average, and a player who was an
\* opponent in two of the matches is listed for the third.
C27_Witness ==
    /\ duo.pc = "done"
    /\ duo.matchIds = <<"d1", "d2", "d3">>
    /\ Len(duo.results) = 3
    /\ duo.results[1].gamesPlayed > duo.results[2].gamesPlayed
    /\ duo.results[1].avgKDA < duo.results[2].avgKDA
    /\ duo.results[3].puuid = "E1"
    /\ duo.results[3].gamesPlayed = 1

\* C28: extractPlayerStats returns null for a player who is not in the
\* match; otherwise its kda is the number kills + assists when the player
\* did not die, and the two-decimal text nearest to (kills + assists) / deaths
\* when the player did: 5 kills and 3 assists give 8 without deaths and
\* "4.00" with 2 deaths.
C28_PlayerStats ==
    (duo.pc \in {"detail", "done"} /\ duo.next > 1) =>
        /\ Mine(LastScanned) = {} => duo.yourStats = {}
        /\ \A me \in Mine(LastScanned) :
              /\ Cardinality(duo.yourStats) = 1
              /\ \A st \in duo.yourStats :
                    /\ me.deaths = 0 =>
                          st.kda = [text |-> FALSE,
                                    hundredths |-> 100 * (me.kills + me.assists)]
                    /\ me.deaths # 0 =>
                          LET gap == st.kda.hundredths * me.deaths
                                        - 100 * (me.kills + me.assists)
                          IN  /\ st.kda.text
                              /\ 2 * gap <= me.deaths
                              /\ 2 * gap > -me.deaths
                    /\ (me.kills = 5 /\ me.assists = 3 /\ me.deaths = 0) =>
                          st.kda.hundredths = 800
                    /\ (me.kills = 5 /\ me.assists = 3 /\ me.deaths = 2) =>
                          st.kda.hundredths = 400

\* The caller's statistics of a match with 5 kills, 3 assists and 2 deaths
\* came out as the text "4.00".
C28_Witness ==
    /\ duo.pc \in {"detail", "done"}
    /\ duo.next > 1
    /\ \E me \in Mine(LastScanned) : me.kills = 5 /\ me.assists = 3 /\ me.deaths = 2
    /\ \E st \in duo.yourStats : st.kda = [text |-> TRUE, hundredths |-> 400]

====
